---- MODULE Spec2Model ----
(***************************************************************************)
(* A model of silbidopy: the patch grid of AudioTonalDataset (data.py),    *)
(* the rendering functions getFrames / getSpectrogram / getAnnotationMask  *)
(* (render.py), BalancedDataset (data.py) and the silbido binary writers   *)
(* (writeBinaries.py).                                                     *)
(*                                                                         *)
(* Units.  Times are integers in ms (a contour node's time, in seconds in  *)
(* the code, is held as time * 1000), frequencies are integers in Hz.      *)
(* frame_time_span divides 1000, so freq_resolution = 1000/frame_time_span *)
(* is an integer.  Every other real number of the code (pixel positions,   *)
(* the points of np.linspace) is an exact rational num/den; the floating   *)
(* point rounding of the code's float arithmetic is not modelled.          *)
(***************************************************************************)
EXTENDS Integers, Sequences, FiniteSets, TLC

VARIABLES
    dataset,    \* the AudioTonalDataset object built by __init__ (or Nil)
    view,       \* the BalancedDataset object built on it (or Nil)
    file,       \* the bytes in the file a writer has written (or Nil)
    args,       \* the arguments of the call under way / last made
    ret         \* what the last call returned or raised (or Nil)

vars == <<dataset, view, file, args, ret>>

\* Python's None, where the code holds None or a number / where it holds
\* None or a string.
None == -1
NoError == "None"

\* The value of a variable that holds no object / no call yet.
Nil == [op |-> "none"]

(***************************************************************************)
(* Python and numpy arithmetic.                                            *)
(***************************************************************************)
Min(a, b) == IF a <= b THEN a ELSE b
Max(a, b) == IF a >= b THEN a ELSE b
Abs(a) == IF a >= 0 THEN a ELSE 0 - a

\* math.floor(a / b) and a // b for integers, b # 0.
FloorDiv(a, b) == IF b > 0 THEN a \div b ELSE (0 - a) \div (0 - b)

\* a % b of Python: the result has the sign of b.
PyMod(a, b) == a - b * FloorDiv(a, b)

\* int(a / b): truncation toward zero, b > 0.
Trunc(a, b) == IF a >= 0 THEN a \div b ELSE 0 - ((0 - a) \div b)

\* math.ceil(a / b), b > 0.
CeilDiv(a, b) == 0 - FloorDiv(0 - a, b)

\* round(a / b) of Python 3 and numpy: to the nearest integer, a tie to the
\* even neighbour; b > 0.
Round(a, b) ==
    LET q == FloorDiv(a, b)
        r2 == 2 * (a - q * b)
    IN  IF r2 < b THEN q
        ELSE IF r2 > b THEN q + 1
        ELSE IF q % 2 = 0 THEN q ELSE q + 1

\* len(x[start:stop]) for a sequence of n items: negative indices count from
\* the end, and both ends are clipped to [0, n].
SliceIndex(i, n) == IF i < 0 THEN Max(i + n, 0) ELSE Min(i, n)
SliceLen(start, stop, n) == Max(SliceIndex(stop, n) - SliceIndex(start, n), 0)

RECURSIVE SumSeq(_)
SumSeq(s) == IF s = <<>> THEN 0 ELSE s[1] + SumSeq(Tail(s))

\* np.cumsum(s)
cumsum(s) == [i \in 1..Len(s) |-> SumSeq(SubSeq(s, 1, i))]

\* np.argmax(b) of a boolean array (0-based): the first True, 0 when there
\* is none.  An empty array raises ValueError (callers test for it).
argmax(b) ==
    IF \E i \in 1..Len(b) : b[i]
    THEN (CHOOSE i \in 1..Len(b) : b[i] /\ \A j \in 1..(i - 1) : ~b[j]) - 1
    ELSE 0

\* All sequences over S of length 0..n.
SeqsUpTo(S, n) == UNION {[1..k -> S] : k \in 0..n}

(***************************************************************************)
(* Bounds of the model and the inputs drawn within them.                   *)
(***************************************************************************)
MaxFiles == 2          \* audio/annotation file pairs in a corpus

\* Sample rates (Hz) and durations (ms) of the audio files.  With the
\* geometry below a 100 ms file is shorter than one patch plus one frame,
\* 450 ms holds exactly one time division and 700 ms holds two.
Rates == {40, 80}
Durations == {100, 450, 700}

\* A wavio.Wav object: data.shape[0] samples (one channel) at rate Hz.
Wavs == {[num_samples |-> (d * r) \div 1000, rate |-> r] : d \in Durations, r \in Rates}

\* The contours of an annotation file, as tonalReader.getTimeFrequencyContours
\* returns them: a list of contours, each a list of (time, freq) nodes.
\* Nodes are <<time in ms, freq in Hz>>.
ContourSets == {
    <<>>,
    << <<  <<150, 10>>  >> >>,
    << << <<100, 6>>, <<250, 13>>, <<650, 22>> >> >> }

\* The keyword arguments of AudioTonalDataset.__init__ that the grid and the
\* patch fetch read (the others are spec_clip_*, window_fn and the caches).
DefaultParams == [
    frame_time_span |-> 250, step_time_span |-> 100,
    min_freq |-> 4, max_freq |-> 28,
    time_patch_frames |-> 2, freq_patch_frames |-> 3,
    time_patch_advance |-> None, freq_patch_advance |-> None,
    line_thickness |-> 1,
    post_processing_time_patch_padding |-> 0,
    post_process_full_frequency_range |-> FALSE ]

ParamSets == {
    DefaultParams,
    [DefaultParams EXCEPT !.time_patch_advance = 1, !.line_thickness = 2],
    [DefaultParams EXCEPT !.post_processing_time_patch_padding = 1],
    [DefaultParams EXCEPT !.post_process_full_frequency_range = TRUE] }

(***************************************************************************)
(* data.py: AudioTonalDataset.__init__                                     *)
(***************************************************************************)
\* freq_resolution = 1000 / frame_time_span
freq_resolution(frame_time_span) == 1000 \div frame_time_span

\* One pass of the loop over the audio files (data.py 140-163): the file's
\* grid and, with cache_wavs / cache_annotations, its wav and contours.
FileInfo(p, wav, contours) ==
    LET res == freq_resolution(p.frame_time_span)
        freq_patch_length_hz == res * p.freq_patch_frames
        freq_patch_advance_hz ==
            IF p.freq_patch_advance = None THEN freq_patch_length_hz
            ELSE res * p.freq_patch_advance
        time_patch_length_ms == p.step_time_span * p.time_patch_frames
        time_patch_advance_ms ==
            IF p.time_patch_advance = None THEN time_patch_length_ms
            ELSE p.step_time_span * p.time_patch_advance
        \* file_length_ms = num_samples * 1000 / rate is kept as a fraction
        nyquist_freq == wav.rate \div 2
        num_freq_divisions ==
            FloorDiv(Min(p.max_freq, nyquist_freq) - p.min_freq - freq_patch_length_hz,
                     freq_patch_advance_hz) + 1
        num_time_divisions ==
            FloorDiv(wav.num_samples * 1000
                        - (time_patch_length_ms + p.frame_time_span) * wav.rate,
                     time_patch_advance_ms * wav.rate) + 1
    IN  [ num_time_divisions |-> num_time_divisions,
          num_freq_divisions |-> num_freq_divisions,
          wav_data |-> wav,
          contours |-> contours ]

\* The object __init__ leaves: the saved values (data.py 104-135) and, per
\* file, num_patches and file_info.  wavs and annos are the files found in
\* audio_dir and annotation_dir, paired by name.
AudioTonalDataset(p, wavs, annos) ==
    LET res == freq_resolution(p.frame_time_span)
        info == [i \in 1..Len(wavs) |-> FileInfo(p, wavs[i], annos[i])]
    IN  [ params |-> p,
          freq_resolution |-> res,
          freq_patch_length_hz |-> res * p.freq_patch_frames,
          freq_patch_advance_hz |->
              IF p.freq_patch_advance = None THEN res * p.freq_patch_frames
              ELSE res * p.freq_patch_advance,
          time_patch_length_ms |-> p.step_time_span * p.time_patch_frames,
          time_patch_advance_ms |->
              IF p.time_patch_advance = None THEN p.step_time_span * p.time_patch_frames
              ELSE p.step_time_span * p.time_patch_advance,
          num_patches |->
              [i \in 1..Len(wavs) |->
                  info[i].num_freq_divisions * info[i].num_time_divisions],
          file_info |-> info ]

\* __len__
len(ds) == SumSeq(ds.num_patches)

(***************************************************************************)
(* data.py: AudioTonalDataset.get_index_source                             *)
(***************************************************************************)
\* A variant of the bounds check that lets idx = len(self) through.
out_of_bounds_past_end(ds, idx) == idx > len(ds)

\* if idx >= len(self): raise IndexError (data.py 268, 305)
out_of_bounds(ds, idx) == idx >= len(ds)

\* file_idx = np.argmax(patches_cumsum > idx), 0-based (data.py 270-271)
file_of(ds, idx) ==
    LET patches_cumsum == cumsum(ds.num_patches)
    IN  argmax([i \in 1..Len(patches_cumsum) |-> patches_cumsum[i] > idx])

\* A variant that leaves idx relative to the whole corpus.
local_idx_unadjusted(ds, file_idx, idx) == idx

\* Adjust idx to be relative to the file index (data.py 276-277)
local_idx(ds, file_idx, idx) ==
    IF file_idx # 0 THEN idx - cumsum(ds.num_patches)[file_idx] ELSE idx

\* get starting time and frequency (data.py 280-282)
patch_start(ds, num_time_divisions, idx) ==
    [ start_time |-> PyMod(idx, num_time_divisions) * ds.time_patch_advance_ms,
      start_freq |-> FloorDiv(idx, num_time_divisions) * ds.freq_patch_advance_hz
                        + ds.params.min_freq ]

\* The lines get_index_source and get_datum share (data.py 268-282 and
\* 305-317): the owning file (0-based) and the start of the patch, or the
\* exception raised.
locate(ds, idx) ==
    IF out_of_bounds(ds, idx) THEN [error |-> "IndexError"]
    ELSE IF Len(ds.num_patches) = 0
    THEN [error |-> "ValueError"]       \* np.argmax of an empty array
    ELSE
        LET file_idx == file_of(ds, idx)
            local == local_idx(ds, file_idx, idx)
            num_time_divisions == ds.file_info[file_idx + 1].num_time_divisions
        IN  IF num_time_divisions = 0
            THEN IF file_idx = 0
                 THEN [error |-> "ZeroDivisionError"]
                 ELSE \* local is a numpy integer: x % 0 and x // 0 are 0
                      [error |-> NoError, file_idx |-> file_idx,
                       start_time |-> 0, start_freq |-> ds.params.min_freq]
            ELSE [error |-> NoError, file_idx |-> file_idx,
                  start_time |-> patch_start(ds, num_time_divisions, local).start_time,
                  start_freq |-> patch_start(ds, num_time_divisions, local).start_freq]

get_index_source(ds, idx) ==
    LET at == locate(ds, idx)
    IN  IF at.error # NoError THEN [raised |-> at.error]
        ELSE [raised |-> NoError, audio_file |-> at.file_idx,
              start_time |-> at.start_time, start_freq |-> at.start_freq]

(***************************************************************************)
(* render.py: getFrames, getSpectrogram.  Only the shapes of the arrays    *)
(* are modelled, not the sample and magnitude values.                      *)
(***************************************************************************)
\* sigproc.frame_signal(signal, frame_sample_span, step_sample_span): the
\* number of frames cut from a signal of n samples.  Frame k starts at the
\* accumulated step k * step_sample_span rounded to the nearest sample, and
\* a frame is cut while it fits.  step_sample_span is step_num / 1000.
frame_signal(n, frame_sample_span, step_num) ==
    Cardinality({k \in 0..n : Round(k * step_num, 1000) + frame_sample_span <= n})

\* getFrames (render.py 28-46) on a wav of wav.num_samples samples:
\* the shape (number of frames, frame length) of the returned array; the
\* empty array np.array([]) has 0 frames.
getFrames(wav, frame_time_span, step_time_span, start_time, end_time) ==
    LET start_frame == Trunc(start_time * wav.rate, 1000)
        end_frame == Trunc((end_time + frame_time_span - step_time_span) * wav.rate, 1000)
        frame_sample_span == FloorDiv(frame_time_span * wav.rate, 1000)
        selected == SliceLen(start_frame, end_frame, wav.num_samples)
    IN  IF selected < frame_sample_span
        THEN [num_frames |-> 0, frame_len |-> 0, selected |-> selected,
              frame_sample_span |-> frame_sample_span]
        ELSE [num_frames |-> frame_signal(selected, frame_sample_span,
                                          step_time_span * wav.rate),
              frame_len |-> frame_sample_span, selected |-> selected,
              frame_sample_span |-> frame_sample_span]

\* sigproc.magspec(frames, NFFT): the magnitude of the real-input DFT of each
\* frame, NFFT // 2 + 1 bins per frame.
magspec_bins(NFFT) == NFFT \div 2 + 1

\* A variant that, like getComplexSpectrogram (render.py 82-83), returns an
\* empty spectrogram when there are no frames.
getSpectrogramEmptyTile(wav, frame_time_span, step_time_span, min_freq, max_freq, start_time, end_time) ==
    LET frames == getFrames(wav, frame_time_span, step_time_span, start_time, end_time)
        res == freq_resolution(frame_time_span)
    IN  [raised |-> NoError,
         shape |-> <<IF frames.num_frames = 0 THEN 1
                     ELSE SliceLen(FloorDiv(min_freq, res), FloorDiv(max_freq, res),
                                   magspec_bins(frames.frame_len)),
                     frames.num_frames>>,
         actual_end_time |-> start_time + frames.num_frames * step_time_span]

\* getSpectrogram (render.py 133-174): the shape (frequency bins, frames) of
\* the spectrogram and actual_end_time, or the ValueError raised.
getSpectrogram(wav, frame_time_span, step_time_span, min_freq, max_freq, start_time, end_time) ==
    LET res == freq_resolution(frame_time_span)
        frames == getFrames(wav, frame_time_span, step_time_span, start_time, end_time)
        NFFT == frames.frame_len
        clip_bottom == FloorDiv(min_freq, res)
        clip_top == FloorDiv(max_freq, res)
        rows == SliceLen(clip_bottom, clip_top, magspec_bins(NFFT))
    IN  IF frames.num_frames * frames.frame_len = 0
        THEN [raised |-> "ValueError"]
        ELSE [raised |-> NoError,
              shape |-> <<rows, frames.num_frames>>,
              actual_end_time |-> start_time + frames.num_frames * step_time_span]

(***************************************************************************)
(* render.py: getAnnotationMask.  A mask is its shape and the set of its   *)
(* pixels <<row, column>> that are 1.  time_frame is held as the numerator *)
(* of a fraction over time_span, freq_frame as one over freq_resolution.   *)
(***************************************************************************)
\* math.ceil(np.sqrt(x*x + y*y)) for x = xn/xd and y = yn/yd: the least
\* n >= 0 with n*n >= x*x + y*y; it is at most ceil(|x|) + ceil(|y|).
CeilHypot(xn, xd, yn, yd) ==
    LET a == (xn * yd) * (xn * yd) + (yn * xd) * (yn * xd)
        d == xd * yd
        reaches(n) == (n * d) * (n * d) >= a
    IN  CHOOSE n \in 0..(CeilDiv(Abs(xn), xd) + CeilDiv(Abs(yn), yd)) :
            reaches(n) /\ (n = 0 \/ ~reaches(n - 1))

\* The rows mask[max(c - lt//2, 0) : c + ceil(lt/2), t] = 1 sets (render.py 276).
DrawPixel(c, t, line_thickness, image_height) ==
    {<<r, t>> : r \in Max(c - line_thickness \div 2, 0)
                        .. (Min(c + CeilDiv(line_thickness, 2), image_height) - 1)}

\* The loop drawing one interpolating line (render.py 252-276) from
\* (pt/span, pf/res) to (tf/span, ff/res); freq is the current node's frequency.
DrawSegment(pt, pf, tf, ff, freq, span, res, W, H, line_thickness) ==
    LET n == CeilHypot(tf - pt, span, ff - pf, res)
        \* np.linspace(prev_time_frame, time_frame, n + 1)[k] = x_n(k) / x_d
        x_d == IF n = 0 THEN span ELSE span * n
        x_n(k) == IF n = 0 THEN pt ELSE pt * n + k * (tf - pt)
        \* freq_time_line(x_n/x_d) as a fraction y_n / y_d
        y_n(k) == ff * (pt - tf) * x_d + (pf - ff) * (x_n(k) * span - tf * x_d)
        y_d == res * (pt - tf) * x_d
        curr_freq_rounded(k) ==
            IF tf - pt <= 0      \* time_frame - prev_time_frame < 1e-10
            THEN freq
            ELSE Round(0 - y_n(k), 0 - y_d)
        t_rounded(k) == Round(x_n(k), x_d)
    IN  UNION { IF t_rounded(k) < 0 \/ t_rounded(k) >= W THEN {}
                ELSE IF curr_freq_rounded(k) < 0 \/ curr_freq_rounded(k) >= H THEN {}
                ELSE DrawPixel(curr_freq_rounded(k), t_rounded(k), line_thickness, H)
              : k \in 0..n }

\* The loop over the nodes of one annotation from node i on (render.py
\* 226-279), prev_time_frame and prev_freq_frame being pt/span and pf/res.
RECURSIVE DrawNodes(_, _, _, _, _, _, _, _, _, _, _)
DrawNodes(a, i, pt, pf, start_time, max_freq, span, res, W, H, line_thickness) ==
    IF i > Len(a) THEN {}
    ELSE
        LET time_frame == (a[i][1] - start_time) * W
            freq_frame == max_freq - a[i][2]
        IN  IF pt >= W * span THEN {}                                  \* break
            ELSE IF 2 * time_frame < 0 - span                          \* continue
            THEN DrawNodes(a, i + 1, pt, pf, start_time, max_freq, span, res, W, H,
                           line_thickness)
            ELSE IF (2 * freq_frame < 0 - res /\ 2 * pf < 0 - res)
                        \/ (freq_frame >= H * res /\ pf >= H * res)    \* continue
            THEN DrawNodes(a, i + 1, pt, pf, start_time, max_freq, span, res, W, H,
                           line_thickness)
            ELSE DrawSegment(pt, pf, time_frame, freq_frame, a[i][2], span, res, W, H,
                             line_thickness)
                 \cup DrawNodes(a, i + 1, time_frame, freq_frame, start_time, max_freq,
                                span, res, W, H, line_thickness)

\* A variant that also marks the pixel of the first node.
DrawAnnotationWithFirstNode(a, start_time, max_freq, span, res, W, H, line_thickness) ==
    LET t == Round((a[1][1] - start_time) * W, span)
        c == Round(max_freq - a[1][2], res)
    IN  (IF t < 0 \/ t >= W \/ c < 0 \/ c >= H THEN {}
         ELSE DrawPixel(c, t, line_thickness, H))
        \cup DrawNodes(a, 2, (a[1][1] - start_time) * W, max_freq - a[1][2],
                       start_time, max_freq, span, res, W, H, line_thickness)

\* The first node of an annotation only sets prev_* (render.py 231-235).
DrawAnnotation(a, start_time, max_freq, span, res, W, H, line_thickness) ==
    DrawNodes(a, 2, (a[1][1] - start_time) * W, max_freq - a[1][2],
              start_time, max_freq, span, res, W, H, line_thickness)

getAnnotationMask(annotations, frame_time_span, step_time_span, min_freq, max_freq, start_time, end_time, line_thickness) ==
    LET res == freq_resolution(frame_time_span)
        max_f == max_freq - PyMod(max_freq, res)
        min_f == min_freq - PyMod(min_freq, res)
        image_width == Trunc(end_time - start_time, step_time_span)
        image_height == Trunc(max_f - min_f, res)
        present == {i \in 1..Len(annotations) :
                        /\ annotations[i][Len(annotations[i])][1] >= start_time
                        /\ annotations[i][1][1] < end_time}
        time_span == end_time - start_time
    IN  IF image_width < 0 \/ image_height < 0 THEN [raised |-> "ValueError"]
        ELSE IF \E i \in 1..Len(annotations) : Len(annotations[i]) = 0
        THEN [raised |-> "IndexError"]
        ELSE IF present = {}
        THEN [raised |-> NoError, shape |-> <<image_height, image_width>>, ones |-> {}]
        ELSE IF time_span = 0 THEN [raised |-> "ZeroDivisionError"]
        ELSE [raised |-> NoError, shape |-> <<image_height, image_width>>,
              ones |-> UNION {DrawAnnotation(annotations[i], start_time, max_f, time_span,
                                             res, image_width, image_height, line_thickness)
                              : i \in present}]

(***************************************************************************)
(* data.py: AudioTonalDataset.get_datum                                    *)
(***************************************************************************)
\* x[lo : n - up] of an axis of n items: the indices kept.
SliceKept(lo, up, n) == {i \in 0..(n - 1) : SliceIndex(lo, n) <= i /\ i < SliceIndex(n - up, n)}

\* get_datum (data.py 304-380) with post_processing_function and
\* mask_processing_function None: the shapes of datum and label, the pixels
\* of label that are 1, or the exception raised.
get_datum(ds, idx) ==
    LET at == locate(ds, idx)
        p == ds.params
        info == ds.file_info[at.file_idx + 1]
        start_time == at.start_time
        start_freq == at.start_freq
        end_time == start_time + ds.time_patch_length_ms
        end_freq == start_freq + ds.freq_patch_length_hz
        pad == p.post_processing_time_patch_padding * p.step_time_span
        padded_start_time == Max(start_time - pad, 0)
        padded_end_time == end_time + pad
        full_freq == p.post_process_full_frequency_range
        lo_freq == IF full_freq THEN p.min_freq ELSE start_freq
        hi_freq == IF full_freq THEN p.max_freq ELSE end_freq
        spec == getSpectrogram(info.wav_data, p.frame_time_span, p.step_time_span,
                               lo_freq, hi_freq, padded_start_time, padded_end_time)
        label == getAnnotationMask(info.contours, p.frame_time_span, p.step_time_span,
                                   lo_freq, hi_freq, padded_start_time,
                                   spec.actual_end_time, p.line_thickness)
        \* Remove padding added for the post processing function
        left_time_padding == Trunc(start_time - padded_start_time, p.step_time_span)
        leftover_t == PyMod(start_time - padded_start_time, p.step_time_span)
        right_time_padding ==
            Trunc(spec.actual_end_time - end_time + leftover_t, p.step_time_span)
        lower_freq_padding ==
            IF full_freq THEN Trunc(p.max_freq - end_freq, ds.freq_resolution) ELSE 0
        leftover_f ==
            IF full_freq THEN PyMod(p.max_freq - end_freq, ds.freq_resolution) ELSE 0
        upper_freq_padding ==
            IF full_freq
            THEN Trunc(start_freq - p.min_freq + leftover_f, ds.freq_resolution)
            ELSE 0
        rows(shape) == SliceKept(lower_freq_padding, upper_freq_padding, shape[1])
        cols(shape) == SliceKept(left_time_padding, right_time_padding, shape[2])
    IN  IF at.error # NoError THEN [raised |-> at.error]
        ELSE IF spec.raised # NoError THEN [raised |-> spec.raised]
        ELSE IF label.raised # NoError THEN [raised |-> label.raised]
        ELSE [raised |-> NoError,
              datum_shape |-> <<Cardinality(rows(spec.shape)), Cardinality(cols(spec.shape))>>,
              label_shape |-> <<Cardinality(rows(label.shape)), Cardinality(cols(label.shape))>>,
              label_ones |-> {px \in label.ones : px[1] \in rows(label.shape)
                                                   /\ px[2] \in cols(label.shape)}]

(***************************************************************************)
(* data.py: AudioTonalDataset.get_positive_indices                         *)
(***************************************************************************)
\* range(a, b, -1)
RangeDown(a, b) == {i \in (b + 1)..a : TRUE}

\* The indices one node <<time, freq>> of file k (1-based) adds to
\* positive_set (data.py 228-258).
NodeIndices(ds, k, node) ==
    LET p == ds.params
        time == node[1]
        freq == node[2]
        num_time_divisions == ds.file_info[k].num_time_divisions
        max_freq_patch == ds.file_info[k].num_freq_divisions - 1
        \* patches_cumsum[file_idx] of np.cumsum(np.append([0], num_patches))
        before == SumSeq(SubSeq(ds.num_patches, 1, k - 1))
        \* freq_patch = (freq - min_freq) / freq_patch_advance_hz and
        \* time_patch = time / time_patch_advance_ms, as fractions
        freq_patch_n == freq - p.min_freq
        int_freq_patch == Trunc(freq_patch_n, ds.freq_patch_advance_hz)
        int_time_patch == Trunc(time, ds.time_patch_advance_ms)
        freq_overlap == CeilDiv(ds.freq_patch_length_hz
                                    - PyMod(freq_patch_n, ds.freq_patch_advance_hz),
                                ds.freq_patch_advance_hz)
        time_overlap == CeilDiv(ds.time_patch_length_ms
                                    - PyMod(time, ds.time_patch_advance_ms),
                                ds.time_patch_advance_ms)
        candidates ==
            { t_idx + f_idx * num_time_divisions + before :
                f_idx \in RangeDown(Min(int_freq_patch, max_freq_patch),
                                    Max(int_freq_patch - freq_overlap, 0 - 1)),
                t_idx \in RangeDown(int_time_patch,
                                    Max(int_time_patch - time_overlap, 0 - 1)) }
    IN  IF freq < p.min_freq \/ freq >= p.max_freq THEN {}
        ELSE {idx \in candidates : idx < len(ds)}

get_positive_indices(ds) ==
    UNION { UNION { UNION { NodeIndices(ds, k, ds.file_info[k].contours[c][i])
                            : i \in 1..Len(ds.file_info[k].contours[c]) }
                    : c \in 1..Len(ds.file_info[k].contours) }
            : k \in 1..Len(ds.file_info) }

(***************************************************************************)
(* The corpus: a dataset is built from the files found, then patches are   *)
(* looked up and fetched and the positive set is computed, in any order.   *)
(***************************************************************************)
IdSlack == 2           \* ids tried below 0 and beyond the last patch

Datasets ==
    { AudioTonalDataset(p, wavs, annos) :
        p \in ParamSets,
        <<wavs, annos>> \in UNION { [1..n -> Wavs] \X [1..n -> ContourSets] : n \in 0..MaxFiles } }

Ids(ds) == (0 - IdSlack)..(Max(len(ds), 0) + IdSlack)

Init ==
    /\ dataset \in Datasets
    /\ view = Nil
    /\ file = Nil
    /\ args = Nil
    /\ ret = Nil

\* A call is made when the previous one has returned to its caller.
GetIndexSource ==
    /\ args.op = "none"
    /\ \E idx \in Ids(dataset) :
        /\ args' = [op |-> "get_index_source", idx |-> idx]
        /\ ret' = get_index_source(dataset, idx)
    /\ UNCHANGED <<dataset, view, file>>

GetDatum ==
    /\ args.op = "none"
    /\ \E idx \in Ids(dataset) :
        /\ args' = [op |-> "get_datum", idx |-> idx]
        /\ ret' = get_datum(dataset, idx)
    /\ UNCHANGED <<dataset, view, file>>

GetPositiveIndices ==
    /\ args.op = "none"
    /\ args' = [op |-> "get_positive_indices"]
    /\ ret' = [raised |-> NoError, positive_set |-> get_positive_indices(dataset)]
    /\ UNCHANGED <<dataset, view, file>>

\* The caller takes the result (or the exception); the dataset is as it was.
Return ==
    /\ args.op # "none"
    /\ args' = Nil
    /\ ret' = Nil
    /\ UNCHANGED <<dataset, view, file>>

Next == GetIndexSource \/ GetDatum \/ GetPositiveIndices \/ Return

Spec == Init /\ [][Next]_vars

(***************************************************************************)
(* Claims about the patch grid and the patch fetch, checked under Spec.    *)
(***************************************************************************)
\* The forward mapping of the grid: the global id of the patch of file k
\* (1-based) that starts at (start_time, start_freq).
GlobalId(ds, k, start_time, start_freq) ==
    LET time_division == FloorDiv(start_time, ds.time_patch_advance_ms)
        freq_division == FloorDiv(start_freq - ds.params.min_freq, ds.freq_patch_advance_hz)
    IN  time_division + freq_division * ds.file_info[k].num_time_divisions
            + SumSeq(SubSeq(ds.num_patches, 1, k - 1))

InRange == args.op \in {"get_index_source", "get_datum"} /\ args.idx \in 0..(len(dataset) - 1)

\* C1: for every global id in [0, len(dataset)), get_index_source(id) returns
\* one of the dataset's files and a (start_time, start_freq) lying on the
\* patch grid, and time_division + freq_division * num_time_divisions + (the
\* patch counts of all preceding files), recomputed from them, is id again.
C1_LookupRoundTrip ==
    (args.op = "get_index_source" /\ InRange) =>
        /\ ret.raised = NoError
        /\ ret.audio_file \in 0..(Len(dataset.file_info) - 1)
        /\ PyMod(ret.start_time, dataset.time_patch_advance_ms) = 0
        /\ PyMod(ret.start_freq - dataset.params.min_freq, dataset.freq_patch_advance_hz) = 0
        /\ GlobalId(dataset, ret.audio_file + 1, ret.start_time, ret.start_freq) = args.idx

\* A lookup that resolved to a later file of the corpus, past its first patch.
C1_Witness ==
    /\ args.op = "get_index_source" /\ InRange
    /\ dataset.num_patches[1] > 0
    /\ ret.raised = NoError /\ ret.audio_file = 1
    /\ ret.start_time > 0 /\ ret.start_freq > dataset.params.min_freq

C6_PositiveIffMaskSet ==
    args.op = "get_positive_indices" =>
        \A id \in 0..(len(dataset) - 1) :
            id \in ret.positive_set <=>
                (get_datum(dataset, id).raised = NoError
                    /\ get_datum(dataset, id).label_ones # {})

\* C7: for every id in [0, len(dataset)), the spectrogram and the annotation
\* mask get_datum returns both have the shape (freq_patch_frames,
\* time_patch_frames).
C7_TileShapes ==
    (args.op = "get_datum" /\ InRange /\ ret.raised = NoError) =>
        /\ ret.datum_shape = <<dataset.params.freq_patch_frames, dataset.params.time_patch_frames>>
        /\ ret.label_shape = ret.datum_shape

(***************************************************************************)
(* The rasterizer on its own: getAnnotationMask applied to annotations and *)
(* windows drawn from bounded sets.                                        *)
(***************************************************************************)
MaxNodes == 3          \* nodes of a contour
MaxThickness == 3      \* line_thickness

\* Node times (ms) and frequencies (Hz), and the windows
\* [start_time, end_time) x [min_freq, max_freq) they are rendered into, at
\* frame_time_span = 250 (4 Hz per row) and step_time_span = 100.
NodeTimes == {0 - 150, 50, 150, 250}
NodeFreqs == {5, 10, 14}
Windows == {
    [start_time |-> 0, end_time |-> 400, min_freq |-> 4, max_freq |-> 16],
    [start_time |-> 100, end_time |-> 400, min_freq |-> 4, max_freq |-> 16],
    [start_time |-> 0, end_time |-> 300, min_freq |-> 6, max_freq |-> 22] }

\* Contours: 1..MaxNodes nodes, in time order.
Contours ==
    { c \in UNION {[1..n -> NodeTimes \X NodeFreqs] : n \in 1..MaxNodes} :
        \A i \in 1..(Len(c) - 1) : c[i][1] <= c[i + 1][1] }

\* Lists of annotations: one contour, or two single-node contours.
AnnotationLists ==
    {<<c>> : c \in Contours}
        \cup {<<c, d>> : c \in {x \in Contours : Len(x) = 1}, d \in {x \in Contours : Len(x) = 1}}

InitMask ==
    /\ dataset = Nil
    /\ view = Nil
    /\ file = Nil
    /\ \E a \in AnnotationLists, w \in Windows, lt \in 0..MaxThickness :
          args = [op |-> "none", annotations |-> a, frame_time_span |-> 250,
                  step_time_span |-> 100, min_freq |-> w.min_freq, max_freq |-> w.max_freq,
                  start_time |-> w.start_time, end_time |-> w.end_time,
                  line_thickness |-> lt]
    /\ ret = Nil

GetAnnotationMask ==
    /\ args.op = "none"
    /\ args' = [args EXCEPT !.op = "getAnnotationMask"]
    /\ ret' = getAnnotationMask(args.annotations, args.frame_time_span, args.step_time_span,
                                args.min_freq, args.max_freq, args.start_time,
                                args.end_time, args.line_thickness)
    /\ UNCHANGED <<dataset, view, file>>

\* The caller takes the mask; the same request can be made again.
ReturnMask ==
    /\ args.op = "getAnnotationMask"
    /\ args' = [args EXCEPT !.op = "none"]
    /\ ret' = Nil
    /\ UNCHANGED <<dataset, view, file>>

NextMask == GetAnnotationMask \/ ReturnMask

SpecMask == InitMask /\ [][NextMask]_vars

\* C8: a contour that consists of a single node sets no pixel of the mask
\* getAnnotationMask returns, whatever the window and line_thickness.
C8_SingleNodeDrawsNothing ==
    (args.op = "getAnnotationMask"
        /\ \A i \in 1..Len(args.annotations) : Len(args.annotations[i]) = 1) =>
        (ret.raised = NoError /\ ret.ones = {})

\* A single node inside the window, rendered with a positive line_thickness.
C8_Witness ==
    /\ args.op = "getAnnotationMask"
    /\ args.annotations = << << <<150, 10>> >> >>
    /\ args.start_time = 0 /\ args.min_freq = 4 /\ args.line_thickness = 2
    /\ ret.ones = {}

\* C9: a two-node contour at one frequency f, both nodes inside the window,
\* gives a mask in which every time column from the first node's pixel column
\* to the second node's carries a vertical run of exactly line_thickness set
\* pixels.
PixelColumn(time) ==
    Round((time - args.start_time) * ret.shape[2], args.end_time - args.start_time)

IsRun(rows, n) == Cardinality(rows) = n /\ \A r1, r2 \in rows : Abs(r1 - r2) < n

C9_HorizontalStripe ==
    LET a == args.annotations[1]
    IN  (/\ args.op = "getAnnotationMask" /\ ret.raised = NoError
         /\ Len(args.annotations) = 1 /\ Len(a) = 2
         /\ a[1][2] = a[2][2] /\ a[1][1] < a[2][1]
         /\ args.line_thickness >= 1
         /\ \A i \in 1..2 : /\ args.start_time <= a[i][1] /\ a[i][1] < args.end_time
                            /\ args.min_freq <= a[i][2] /\ a[i][2] < args.max_freq) =>
            \A col \in PixelColumn(a[1][1])..PixelColumn(a[2][1]) :
                IsRun({px[1] : px \in {q \in ret.ones : q[2] = col}}, args.line_thickness)

(***************************************************************************)
(* The frame extractor on its own: getFrames and getSpectrogram applied to *)
(* the same request, the audio and the range drawn from bounded sets.      *)
(***************************************************************************)
MaxSamples == 24       \* samples of the audio given to getFrames

RequestTimes == {0 - 1, 0, 100, 200, 300}

InitFrames ==
    /\ dataset = Nil
    /\ view = Nil
    /\ file = Nil
    /\ \E n \in 0..MaxSamples, r \in Rates, t0 \in RequestTimes \ {0 - 1}, t1 \in RequestTimes :
          args = [op |-> "none", audioFile |-> [num_samples |-> n, rate |-> r],
                  frame_time_span |-> 250, step_time_span |-> 100,
                  start_time |-> t0, end_time |-> t1]
    /\ ret = Nil

GetFrames ==
    /\ args.op = "none"
    /\ args' = [args EXCEPT !.op = "getFrames"]
    /\ ret' = [raised |-> NoError,
               frames |-> getFrames(args.audioFile, args.frame_time_span,
                                    args.step_time_span, args.start_time, args.end_time)]
    /\ UNCHANGED <<dataset, view, file>>

\* min_freq and max_freq only clip the rows of the result.
GetSpectrogram ==
    /\ args.op = "none"
    /\ args' = [args EXCEPT !.op = "getSpectrogram"]
    /\ ret' = getSpectrogram(args.audioFile, args.frame_time_span, args.step_time_span,
                             4, 16, args.start_time, args.end_time)
    /\ UNCHANGED <<dataset, view, file>>

ReturnFrames ==
    /\ args.op \in {"getFrames", "getSpectrogram"}
    /\ args' = [args EXCEPT !.op = "none"]
    /\ ret' = Nil
    /\ UNCHANGED <<dataset, view, file>>

NextFrames == GetFrames \/ GetSpectrogram \/ ReturnFrames

SpecFrames == InitFrames /\ [][NextFrames]_vars

\* The samples of the audio whose time lies in [start_time, end_time).
SamplesInRequest ==
    Cardinality({i \in 0..(args.audioFile.num_samples - 1) :
                    /\ args.start_time * args.audioFile.rate <= i * 1000
                    /\ i * 1000 < args.end_time * args.audioFile.rate})

\* The samples getFrames selects for the request (render.py 28-35):
\* data[start_frame:end_frame], which runs from start_time to
\* end_time + frame_time_span - step_time_span.
SamplesSelected ==
    SliceLen(Trunc(args.start_time * args.audioFile.rate, 1000),
             Trunc((args.end_time + args.frame_time_span - args.step_time_span)
                       * args.audioFile.rate, 1000),
             args.audioFile.num_samples)

\* frame_sample_span (render.py 32)
SamplesPerFrame == FloorDiv(args.frame_time_span * args.audioFile.rate, 1000)

NoFramesNoTile ==
    /\ args.op = "getFrames" => (ret.raised = NoError /\ ret.frames.num_frames = 0)
    /\ args.op = "getSpectrogram" => ret.raised = "ValueError"

SHORT_LEN == 2
INT_LEN == 4
DOUBLE_LEN == 8
LONG_LEN == 8

\* "silbido!".encode("utf-8")
HEADER_STR == <<115, 105, 108, 98, 105, 100, 111, 33>>
DET_VERSION == 4

TIME == 1
FREQ == 2
SNR == 4
PHASE == 8
RIDGE == 64
TIMESTAMP == 128
USERCOMMENT == 256
SCORE == 16
CONFIDENCE == 32
SPECIES == 512
CALL == 1024

\* bitMask & bit
HasBit(bitMask, bit) == (bitMask \div bit) % 2 = 1

\* int.to_bytes(length, byteorder = "big"), for 0 <= v < 256^length
to_bytes(v, length) == [i \in 1..length |-> (v \div (256 ^ (length - i))) % 256]

\* int.from_bytes(b, byteorder = "big")
RECURSIVE from_bytes(_)
from_bytes(b) ==
    IF b = <<>> THEN 0 ELSE 256 * from_bytes(SubSeq(b, 1, Len(b) - 1)) + b[Len(b)]

\* struct.pack(">d", x)
pack_d(x) ==
    LET f == x.fraction
    IN  <<x.sign * 128 + (x.exponent \div 16),
          (x.exponent % 16) * 16 + f[1],
          f[2] * 16 + f[3], f[4] * 16 + f[5], f[6] * 16 + f[7],
          f[8] * 16 + f[9], f[10] * 16 + f[11], f[12] * 16 + f[13]>>

\* The UTF-8 encoding of one code point below 0x10000.
encode_char(c) ==
    IF c < 128 THEN <<c>>
    ELSE IF c < 2048 THEN <<192 + (c \div 64), 128 + (c % 64)>>
    ELSE <<224 + (c \div 4096), 128 + ((c \div 64) % 64), 128 + (c % 64)>>

\* str.encode("utf-8")
RECURSIVE encode(_)
encode(strval) ==
    IF strval = <<>> THEN <<>> ELSE encode_char(Head(strval)) \o encode(Tail(strval))

\* 2**16, the limit on the length of a string (writeBinaries.py 124, 131, 261)
STRING_LIMIT == 65536

\* What stops the writing of a species or call name of L characters
\* (writeBinaries.py 123-127, 130-134): L is len() of the str, its number
\* of characters.
name_length_raises(L) ==
    IF L >= STRING_LIMIT THEN "RuntimeError" ELSE NoError

\* What stops write_utf8_string on a str of n characters (writeBinaries.py
\* 260-263): 2**16 itself passes the test and then does not fit the two
\* bytes of the prefix.
utf8_string_length_raises(n) ==
    IF n > STRING_LIMIT THEN "RuntimeError"
    ELSE IF n = STRING_LIMIT THEN "OverflowError"
    ELSE NoError

\* A length-prefixed string written as writeContoursBinary writes species
\* and call (writeBinaries.py 123-128, 130-135): the prefix is the number of
\* characters.
write_name(name) ==
    LET L == Len(name)
    IN  IF name_length_raises(L) # NoError
        THEN [raised |-> name_length_raises(L), bytes |-> <<>>]
        ELSE [raised |-> NoError, bytes |-> to_bytes(L, SHORT_LEN) \o encode(name)]

\* write_utf8_string (writeBinaries.py 253-264)
write_utf8_string(strval) ==
    LET n == Len(strval)
    IN  IF utf8_string_length_raises(n) # NoError
        THEN [raised |-> utf8_string_length_raises(n), bytes |-> <<>>]
        ELSE [raised |-> NoError, bytes |-> to_bytes(n, SHORT_LEN) \o encode(strval)]

\* A variant of write_node, below, with frequency written before time.
write_node_freq_first(node, flags) ==
    (IF flags.frequency THEN pack_d(node.freq) ELSE <<>>)
        \o (IF flags.time THEN pack_d(node.time) ELSE <<>>)
        \o (IF flags.snr THEN pack_d(node.snr) ELSE <<>>)
        \o (IF flags.phase THEN pack_d(node.phase) ELSE <<>>)
        \o (IF flags.ridge THEN pack_d(node.ridge) ELSE <<>>)

\* The doubles of one node, in the order writeContoursBinary writes them
\* (writeBinaries.py 144-154).
write_node(node, flags) ==
    (IF flags.time THEN pack_d(node.time) ELSE <<>>)
        \o (IF flags.frequency THEN pack_d(node.freq) ELSE <<>>)
        \o (IF flags.snr THEN pack_d(node.snr) ELSE <<>>)
        \o (IF flags.phase THEN pack_d(node.phase) ELSE <<>>)
        \o (IF flags.ridge THEN pack_d(node.ridge) ELSE <<>>)

RECURSIVE write_nodes(_, _)
write_nodes(tfnodes, flags) ==
    IF tfnodes = <<>> THEN <<>>
    ELSE write_node(Head(tfnodes), flags) \o write_nodes(Tail(tfnodes), flags)

\* (14567891234567891234).to_bytes(LONG_LEN, byteorder = "big")
graphId == <<202, 43, 139, 228, 210, 242, 41, 34>>

\* One pass of the loop over the contours (writeBinaries.py 116-154).
write_contour(contour, flags) ==
    LET species == IF flags.species THEN write_name(contour.species)
                   ELSE [raised |-> NoError, bytes |-> <<>>]
        call == IF flags.call THEN write_name(contour.call)
                ELSE [raised |-> NoError, bytes |-> <<>>]
        scores == (IF flags.confidence THEN pack_d(contour.confidence) ELSE <<>>)
                      \o (IF flags.score THEN pack_d(contour.score) ELSE <<>>)
    IN  IF species.raised # NoError
        THEN [raised |-> species.raised, bytes |-> scores]
        ELSE IF call.raised # NoError
        THEN [raised |-> call.raised, bytes |-> scores \o species.bytes]
        ELSE [raised |-> NoError,
              bytes |-> scores \o species.bytes \o call.bytes \o graphId
                            \o to_bytes(Len(contour.tfnodes), INT_LEN)
                            \o write_nodes(contour.tfnodes, flags)]

\* The loop over the contours: it stops at the first contour that raises.
RECURSIVE write_contours(_, _)
write_contours(contours, flags) ==
    IF contours = <<>> THEN [raised |-> NoError, bytes |-> <<>>]
    ELSE LET first == write_contour(Head(contours), flags)
             rest == write_contours(Tail(contours), flags)
         IN  IF first.raised # NoError THEN first
             ELSE [raised |-> rest.raised, bytes |-> first.bytes \o rest.bytes]

\* writeContoursBinary (writeBinaries.py 36-154): the exception it raises
\* and the bytes the file holds afterwards.
writeContoursBinary(contours, flags, comment, timestamp) ==
    LET bitMask == (IF flags.time THEN TIME ELSE 0)
                       + (IF flags.frequency THEN FREQ ELSE 0)
                       + (IF flags.snr THEN SNR ELSE 0)
                       + (IF flags.phase THEN PHASE ELSE 0)
                       + (IF flags.ridge THEN RIDGE ELSE 0)
                       + (IF Len(comment) > 0 THEN USERCOMMENT ELSE 0)
                       + (IF Len(timestamp) > 0 THEN TIMESTAMP ELSE 0)
                       + (IF flags.score THEN SCORE ELSE 0)
                       + (IF flags.confidence THEN CONFIDENCE ELSE 0)
                       + (IF flags.species THEN SPECIES ELSE 0)
                       + (IF flags.call THEN CALL ELSE 0)
        headerSize == 3 * SHORT_LEN + INT_LEN + Len(HEADER_STR)
                          + (IF Len(comment) > 0 THEN 2 + Len(comment) ELSE 0)
                          + (IF Len(timestamp) > 0 THEN 2 + Len(timestamp) ELSE 0)
        header == HEADER_STR \o to_bytes(DET_VERSION, SHORT_LEN)
                      \o to_bytes(bitMask, SHORT_LEN) \o to_bytes(0, SHORT_LEN)
                      \o to_bytes(headerSize, INT_LEN)
        written_comment == IF Len(comment) > 0 THEN write_utf8_string(comment)
                           ELSE [raised |-> NoError, bytes |-> <<>>]
        tonals == write_contours(contours, flags)
    IN  IF written_comment.raised # NoError
        THEN [raised |-> written_comment.raised, bytes |-> header]
        ELSE IF Len(timestamp) > 0
        THEN \* write_utf8_string(timestamp): the file argument is missing
             [raised |-> "TypeError", bytes |-> header \o written_comment.bytes]
        ELSE [raised |-> tonals.raised,
              bytes |-> header \o written_comment.bytes \o tonals.bytes]

\* (0).to_bytes(LONG_LEN, byteorder = "big"), the graphId of
\* writeTimeFrequencyBinary
zeroGraphId == [i \in 1..LONG_LEN |-> 0]

\* One pass of the loop of writeTimeFrequencyBinary over contours that are
\* dataclass instances (writeBinaries.py 221-245): contour.time[idx] and
\* contour.freq[idx] are the time and freq of tfnodes[idx].
write_dataclass_contour(contour, bitMask) ==
    LET species == IF HasBit(bitMask, SPECIES) THEN write_utf8_string(contour.species)
                   ELSE [raised |-> NoError, bytes |-> <<>>]
        call == IF HasBit(bitMask, CALL) THEN write_utf8_string(contour.call)
                ELSE [raised |-> NoError, bytes |-> <<>>]
    IN  IF species.raised # NoError THEN [raised |-> species.raised, bytes |-> <<>>]
        ELSE IF call.raised # NoError
        THEN [raised |-> call.raised, bytes |-> species.bytes]
        ELSE [raised |-> NoError,
              bytes |-> species.bytes \o call.bytes \o zeroGraphId
                            \o to_bytes(Len(contour.tfnodes), INT_LEN)
                            \o write_nodes(contour.tfnodes,
                                   [time |-> TRUE, frequency |-> TRUE, snr |-> FALSE,
                                    phase |-> FALSE, ridge |-> FALSE])]

RECURSIVE write_dataclass_contours(_, _)
write_dataclass_contours(contours, bitMask) ==
    IF contours = <<>> THEN [raised |-> NoError, bytes |-> <<>>]
    ELSE LET first == write_dataclass_contour(Head(contours), bitMask)
             rest == write_dataclass_contours(Tail(contours), bitMask)
         IN  IF first.raised # NoError THEN first
             ELSE [raised |-> rest.raised, bytes |-> first.bytes \o rest.bytes]

\* writeTimeFrequencyBinary (writeBinaries.py 158-250).  is_dataclass tells
\* whether the contours are dataclass instances, with the fields named in
\* contour_fields, or lists of (time, frequency) tuples.
writeTimeFrequencyBinary(contours, is_dataclass, contour_fields, userVersion) ==
    LET fields == IF Len(contours) > 0 THEN contour_fields ELSE {}
        bitMask == TIME + FREQ + (IF "species" \in fields THEN SPECIES ELSE 0)
                       + (IF "call" \in fields THEN CALL ELSE 0)
        headerSize == 3 * SHORT_LEN + INT_LEN + Len(HEADER_STR)
        header == HEADER_STR \o to_bytes(DET_VERSION, SHORT_LEN)
                      \o to_bytes(bitMask, SHORT_LEN)
                      \o to_bytes(userVersion, SHORT_LEN)
                      \o to_bytes(headerSize, INT_LEN)
        tonals == write_dataclass_contours(contours, bitMask)
    IN  IF Len(contours) > 0 /\ ~is_dataclass
        THEN \* dataclasses.fields(contours[0]) on a list
             [raised |-> "TypeError", bytes |-> <<>>]
        ELSE IF Len(contours) > 0 /\ ("time" \notin fields \/ "freq" \notin fields)
        THEN [raised |-> "RuntimeError", bytes |-> <<>>]
        ELSE IF userVersion < 0 \/ userVersion >= 65536
        THEN [raised |-> "OverflowError", bytes |-> HEADER_STR
                  \o to_bytes(DET_VERSION, SHORT_LEN) \o to_bytes(bitMask, SHORT_LEN)]
        ELSE [raised |-> tonals.raised, bytes |-> header \o tonals.bytes]

(***************************************************************************)
(* The reader of the format, silbidopy.readBinaries, after the layout of   *)
(* the specification: every field is present exactly when its bit of the   *)
(* bitmask is set, a string is a 16-bit count of bytes followed by that    *)
(* many bytes of UTF-8, and the contours run to the end of the stream.     *)
(***************************************************************************)
\* struct.unpack(">d", b)
unpack_d(b) ==
    [sign |-> b[1] \div 128,
     exponent |-> (b[1] % 128) * 16 + (b[2] \div 16),
     fraction |-> <<b[2] % 16, b[3] \div 16, b[3] % 16, b[4] \div 16, b[4] % 16,
                    b[5] \div 16, b[5] % 16, b[6] \div 16, b[6] % 16,
                    b[7] \div 16, b[7] % 16, b[8] \div 16, b[8] % 16>>]

\* The value a field that is not in the file has after decoding.
absent_double == [sign |-> 0, exponent |-> 0, fraction |-> [i \in 1..13 |-> 0]]
absent_string == <<>>

\* The one element of a singleton set: in {F(x) : x \in {e}} the value of e
\* is computed once and named x.
Only(S) == CHOOSE x \in S : TRUE

\* bytes.decode("utf-8") for code points below 0x10000: the string, or
\* <<-1>> for bytes that are not UTF-8.
RECURSIVE decode_utf8(_)
decode_utf8(b) ==
    IF b = <<>> THEN <<>>
    ELSE LET n == IF b[1] < 128 THEN 1
                  ELSE IF b[1] >= 194 /\ b[1] < 224 THEN 2
                  ELSE IF b[1] >= 224 /\ b[1] < 240 THEN 3
                  ELSE 0
             c == IF n = 1 THEN b[1]
                  ELSE IF n = 2 THEN (b[1] - 192) * 64 + (b[2] - 128)
                  ELSE (b[1] - 224) * 4096 + (b[2] - 128) * 64 + (b[3] - 128)
         IN  IF n = 0 \/ n > Len(b) THEN <<-1>>
             ELSE IF \E j \in 2..n : b[j] < 128 \/ b[j] >= 192 THEN <<-1>>
             ELSE Only({IF rest = <<-1>> THEN rest ELSE <<c>> \o rest :
                            rest \in {decode_utf8(SubSeq(b, n + 1, Len(b)))}})

\* The state of the reader: the error met, the position of the next byte,
\* and the value read so far.
reader(pos, val) == [error |-> NoError, pos |-> pos, val |-> val]

\* One field read at st.pos into st.val[name]: a double, a length-prefixed
\* string, or an integer of size bytes (one whose first bit is set is none
\* of the integers written here: it is reported as truncated).
read_field(b, st, name, type, size) ==
    IF type = "string"
    THEN IF st.pos + SHORT_LEN - 1 > Len(b) THEN [st EXCEPT !.error = "TruncatedStream"]
         ELSE Only({ IF st.pos + SHORT_LEN + n - 1 > Len(b)
                     THEN [st EXCEPT !.error = "TruncatedStream"]
                     ELSE Only({ IF str = <<-1>>
                                 THEN [st EXCEPT !.error = "UnicodeDecodeError"]
                                 ELSE [st EXCEPT !.pos = @ + SHORT_LEN + n, !.val[name] = str]
                                 : str \in {decode_utf8(SubSeq(b, st.pos + SHORT_LEN,
                                                                st.pos + SHORT_LEN + n - 1))} })
                     : n \in {from_bytes(SubSeq(b, st.pos, st.pos + SHORT_LEN - 1))} })
    ELSE IF st.pos + size - 1 > Len(b) THEN [st EXCEPT !.error = "TruncatedStream"]
    ELSE IF type = "double"
    THEN [st EXCEPT !.pos = @ + size,
                    !.val[name] = unpack_d(SubSeq(b, st.pos, st.pos + size - 1))]
    ELSE IF type = "skip" THEN [st EXCEPT !.pos = @ + size]
    ELSE IF b[st.pos] >= 128 THEN [st EXCEPT !.error = "TruncatedStream"]
    ELSE [st EXCEPT !.pos = @ + size,
                    !.val[name] = from_bytes(SubSeq(b, st.pos, st.pos + size - 1))]

\* The fields of plan that the bitmask declares, read one after the other.
\* A field of the plan is <<name, type, size, bit>>; bit 0 is always read.
RECURSIVE read_fields(_, _, _, _)
read_fields(b, st, plan, bitMask) ==
    IF plan = <<>> \/ st.error # NoError THEN st
    ELSE IF Head(plan)[4] # 0 /\ ~HasBit(bitMask, Head(plan)[4])
    THEN read_fields(b, st, Tail(plan), bitMask)
    ELSE Only({ read_fields(b, next, Tail(plan), bitMask) :
                   next \in {read_field(b, st, Head(plan)[1], Head(plan)[2], Head(plan)[3])} })

\* The layout of the header after the magic string, of a contour before its
\* nodes, and of a node.
header_plan ==
    << <<"version", "int", SHORT_LEN, 0>>, <<"bitMask", "int", SHORT_LEN, 0>>,
       <<"userVersion", "int", SHORT_LEN, 0>>, <<"headerSize", "int", INT_LEN, 0>> >>

header_strings_plan ==
    << <<"comment", "string", 0, USERCOMMENT>>, <<"timestamp", "string", 0, TIMESTAMP>> >>

contour_plan ==
    << <<"confidence", "double", DOUBLE_LEN, CONFIDENCE>>,
       <<"score", "double", DOUBLE_LEN, SCORE>>,
       <<"species", "string", 0, SPECIES>>, <<"call", "string", 0, CALL>>,
       <<"graphId", "skip", LONG_LEN, 0>>, <<"N", "int", INT_LEN, 0>> >>

node_plan ==
    << <<"time", "double", DOUBLE_LEN, TIME>>, <<"freq", "double", DOUBLE_LEN, FREQ>>,
       <<"snr", "double", DOUBLE_LEN, SNR>>, <<"phase", "double", DOUBLE_LEN, PHASE>>,
       <<"ridge", "double", DOUBLE_LEN, RIDGE>> >>

absent_node ==
    [time |-> absent_double, freq |-> absent_double, snr |-> absent_double,
     phase |-> absent_double, ridge |-> absent_double]

\* count nodes read at st.pos and appended to st.val.
RECURSIVE read_nodes(_, _, _, _)
read_nodes(b, st, bitMask, count) ==
    IF count = 0 \/ st.error # NoError THEN st
    ELSE Only({ read_nodes(b, [error |-> node.error, pos |-> node.pos,
                               val |-> Append(st.val, node.val)], bitMask, count - 1) :
                   node \in {read_fields(b, reader(st.pos, absent_node), node_plan, bitMask)} })

\* One contour at position pos.  A contour of more nodes than the stream has
\* bytes is none of the contours written here: it is reported as truncated.
read_contour(b, pos, bitMask) ==
    Only({ Only({ [error |-> tfnodes.error, pos |-> tfnodes.pos,
                   val |-> [confidence |-> head.val.confidence, score |-> head.val.score,
                            species |-> head.val.species, call |-> head.val.call,
                            tfnodes |-> tfnodes.val]] :
                     tfnodes \in {IF head.val.N > Len(b)
                                  THEN [head EXCEPT !.error = "TruncatedStream"]
                                  ELSE read_nodes(b, [head EXCEPT !.val = <<>>], bitMask,
                                                  head.val.N)} }) :
              head \in {read_fields(b,
                            reader(pos, [confidence |-> absent_double, score |-> absent_double,
                                         species |-> absent_string, call |-> absent_string,
                                         N |-> 0]),
                            contour_plan, bitMask)} })

\* The contours from st.pos to the end of the stream, appended to st.val.
RECURSIVE read_contours(_, _, _)
read_contours(b, st, bitMask) ==
    IF st.pos > Len(b) \/ st.error # NoError THEN st
    ELSE Only({ read_contours(b, [error |-> contour.error, pos |-> contour.pos,
                                  val |-> Append(st.val, contour.val)], bitMask) :
                   contour \in {read_contour(b, st.pos, bitMask)} })

\* The whole file.
decode(b) ==
    IF Len(b) < Len(HEADER_STR) THEN [error |-> "TruncatedStream"]
    ELSE IF SubSeq(b, 1, Len(HEADER_STR)) # HEADER_STR THEN [error |-> "BadMagic"]
    ELSE Only({
        IF header.error # NoError THEN [error |-> header.error]
        ELSE Only({
            IF strings.error # NoError THEN [error |-> strings.error]
            ELSE IF header.val.headerSize # strings.pos - 1
            THEN [error |-> "HeaderSizeMismatch"]
            ELSE Only({
                IF contours.error # NoError THEN [error |-> contours.error]
                ELSE [error |-> NoError, version |-> header.val.version,
                      bitMask |-> header.val.bitMask,
                      userVersion |-> header.val.userVersion,
                      comment |-> strings.val.comment,
                      timestamp |-> strings.val.timestamp,
                      contours |-> contours.val] :
                contours \in {read_contours(b, reader(strings.pos, <<>>),
                                            header.val.bitMask)} }) :
            strings \in {read_fields(b,
                            reader(header.pos, [comment |-> absent_string,
                                                timestamp |-> absent_string]),
                            header_strings_plan, header.val.bitMask)} }) :
        header \in {read_fields(b,
                        reader(Len(HEADER_STR) + 1,
                               [version |-> 0, bitMask |-> 0, userVersion |-> 0,
                                headerSize |-> 0]),
                        header_plan, 0)} })

(***************************************************************************)
(* The codec on its own: contour files drawn from bounded sets are         *)
(* written, and the file written is read back.                             *)
(***************************************************************************)
MaxContours == 1       \* contours of a file
MaxStrLen == 1         \* characters of a comment

\* The float with the given sign, biased exponent and fraction digits.
float(sign, exponent, fraction) ==
    [sign |-> sign, exponent |-> exponent, fraction |-> fraction]

\* 1.25, 500.0, 1.30 and 505.5
f_1_25 == float(0, 1023, <<4, 0, 0, 0, 0, 0, 0, 0, 0, 0, 0, 0, 0>>)
f_500_0 == float(0, 1031, <<15, 4, 0, 0, 0, 0, 0, 0, 0, 0, 0, 0, 0>>)
f_1_30 == float(0, 1023, <<4, 12, 12, 12, 12, 12, 12, 12, 12, 12, 12, 12, 13>>)
f_505_5 == float(0, 1031, <<15, 9, 8, 0, 0, 0, 0, 0, 0, 0, 0, 0, 0>>)
\* 0.25, 0.8, 1.0, -2.5 and 6.6
f_0_25 == float(0, 1021, <<0, 0, 0, 0, 0, 0, 0, 0, 0, 0, 0, 0, 0>>)
f_0_8 == float(0, 1022, <<9, 9, 9, 9, 9, 9, 9, 9, 9, 9, 9, 9, 10>>)
f_1_0 == float(0, 1023, <<0, 0, 0, 0, 0, 0, 0, 0, 0, 0, 0, 0, 0>>)
f_minus_2_5 == float(1, 1024, <<4, 0, 0, 0, 0, 0, 0, 0, 0, 0, 0, 0, 0>>)
f_6_6 == float(0, 1025, <<10, 6, 6, 6, 6, 6, 6, 6, 6, 6, 6, 6, 6>>)

\* The two nodes (1.25 s, 500.0 Hz) and (1.30 s, 505.5 Hz).
TfNodes ==
    << [time |-> f_1_25, freq |-> f_500_0, snr |-> f_6_6, phase |-> f_0_25, ridge |-> f_1_0],
       [time |-> f_1_30, freq |-> f_505_5, snr |-> f_minus_2_5, phase |-> f_0_8,
        ridge |-> f_0_25] >>

\* The characters "a" and e with an acute accent, which UTF-8 encodes in
\* one and in two bytes.
Chars == {97, 233}

\* Contours whose every field is populated; the call is "D".
FullContours ==
    [confidence : {f_1_0}, score : {f_0_8}, species : {<<97>>, <<233>>}, call : {<<68>>},
     tfnodes : {<<>>, TfNodes}]

FeatureFlags ==
    [time : BOOLEAN, frequency : BOOLEAN, snr : BOOLEAN, phase : BOOLEAN, ridge : BOOLEAN,
     score : BOOLEAN, confidence : BOOLEAN, species : BOOLEAN, call : BOOLEAN]

\* The timestamps: none, and "20".
Timestamps == {<<>>, <<50, 48>>}

\* The contour with exactly the fields populated that the flags declare.
Populated(contour, flags) ==
    [confidence |-> IF flags.confidence THEN contour.confidence ELSE absent_double,
     score |-> IF flags.score THEN contour.score ELSE absent_double,
     species |-> IF flags.species THEN contour.species ELSE absent_string,
     call |-> IF flags.call THEN contour.call ELSE absent_string,
     tfnodes |-> [i \in 1..Len(contour.tfnodes) |->
                    [time |-> IF flags.time THEN contour.tfnodes[i].time ELSE absent_double,
                     freq |-> IF flags.frequency THEN contour.tfnodes[i].freq
                              ELSE absent_double,
                     snr |-> IF flags.snr THEN contour.tfnodes[i].snr ELSE absent_double,
                     phase |-> IF flags.phase THEN contour.tfnodes[i].phase
                               ELSE absent_double,
                     ridge |-> IF flags.ridge THEN contour.tfnodes[i].ridge
                               ELSE absent_double]]]

InitCodec ==
    /\ dataset = Nil /\ view = Nil /\ file = Nil /\ args = Nil /\ ret = Nil

\* writeContoursBinary(filename, contours, ...)
WriteContoursBinary ==
    /\ args.op = "none"
    /\ \E contours \in SeqsUpTo(FullContours, MaxContours), flags \in FeatureFlags,
          comment \in SeqsUpTo(Chars, MaxStrLen), timestamp \in Timestamps :
          LET populated == [i \in 1..Len(contours) |-> Populated(contours[i], flags)]
          IN  /\ args' = [op |-> "writeContoursBinary", contours |-> populated,
                          flags |-> flags, comment |-> comment, timestamp |-> timestamp]
              /\ file' = writeContoursBinary(populated, flags, comment, timestamp)
    /\ UNCHANGED <<dataset, view, ret>>

\* writeTimeFrequencyBinary(filename, contours, userVersion)
WriteTimeFrequencyBinary ==
    /\ args.op = "none"
    /\ \E contours \in SeqsUpTo(FullContours, MaxContours), is_dataclass \in BOOLEAN,
          fields \in SUBSET {"time", "freq", "species", "call"}, userVersion \in {0, 7} :
          /\ ~is_dataclass => fields = {}
          /\ args' = [op |-> "writeTimeFrequencyBinary", contours |-> contours,
                      is_dataclass |-> is_dataclass, fields |-> fields,
                      userVersion |-> userVersion]
          /\ file' = writeTimeFrequencyBinary(contours, is_dataclass, fields, userVersion)
    /\ UNCHANGED <<dataset, view, ret>>

\* The file that was written is read back.
ReadBinary ==
    /\ args.op # "none" /\ ret = Nil
    /\ ret' = decode(file.bytes)
    /\ UNCHANGED <<dataset, view, file, args>>

ReturnCodec ==
    /\ args.op # "none"
    /\ args' = Nil /\ ret' = Nil /\ file' = Nil
    /\ UNCHANGED <<dataset, view>>

NextCodec == WriteContoursBinary \/ WriteTimeFrequencyBinary \/ ReadBinary \/ ReturnCodec

SpecCodec == InitCodec /\ [][NextCodec]_vars

\* C3: whenever a file whose populated fields match its feature flags has
\* been written by writeContoursBinary and read back, the file was written
\* without an exception and the reader returns the comment, the timestamp
\* and every contour, doubles and strings alike, as they were given.
C3_RoundTrip ==
    (args.op = "writeContoursBinary" /\ ret # Nil) =>
        /\ file.raised = NoError
        /\ ret.error = NoError
        /\ ret.comment = args.comment
        /\ ret.timestamp = args.timestamp
        /\ ret.contours = args.contours

\* The case of C4: one contour with the nodes (1.25, 500.0), (1.30, 505.5),
\* only time and frequency, no comment, no timestamp.
C4_Case ==
    /\ args.op \in {"writeContoursBinary", "writeTimeFrequencyBinary"}
    /\ Len(args.contours) = 1
    /\ Len(args.contours[1].tfnodes) = 2
    /\ args.contours[1].tfnodes[1].time = f_1_25
    /\ args.contours[1].tfnodes[1].freq = f_500_0
    /\ args.contours[1].tfnodes[2].time = f_1_30
    /\ args.contours[1].tfnodes[2].freq = f_505_5
    /\ args.op = "writeContoursBinary" =>
          /\ args.flags = [time |-> TRUE, frequency |-> TRUE, snr |-> FALSE,
                           phase |-> FALSE, ridge |-> FALSE, score |-> FALSE,
                           confidence |-> FALSE, species |-> FALSE, call |-> FALSE]
          /\ args.comment = <<>> /\ args.timestamp = <<>>
    /\ args.op = "writeTimeFrequencyBinary" =>
          /\ args.is_dataclass /\ args.fields = {"time", "freq"} /\ args.userVersion = 0

\* C4: in that case the file holds exactly "silbido!", 0x0004, 0x0003,
\* 0x0000, four bytes of header size, eight bytes of graph id, 0x00000002
\* and the big-endian doubles 1.25, 500.0, 1.30, 505.5, in this order.
C4_ConcreteBytes ==
    C4_Case =>
        /\ file.raised = NoError
        /\ Len(file.bytes) = 62
        /\ SubSeq(file.bytes, 1, 14) =
               <<115, 105, 108, 98, 105, 100, 111, 33, 0, 4, 0, 3, 0, 0>>
        /\ SubSeq(file.bytes, 27, 62) =
               <<0, 0, 0, 2,
                 63, 244, 0, 0, 0, 0, 0, 0,
                 64, 127, 64, 0, 0, 0, 0, 0,
                 63, 244, 204, 204, 204, 204, 204, 205,
                 64, 127, 152, 0, 0, 0, 0, 0>>

\* writeContoursBinary has written the two-node contour with time and
\* frequency only.
C4_Witness ==
    /\ C4_Case /\ args.op = "writeContoursBinary"
    /\ Len(file.bytes) > 0

(***************************************************************************)
(* data.py: BalancedDataset.  The wrapped dataset is any object with a     *)
(* length; positive_set is the set the caller passes.  A proportion is the *)
(* pair <<a, b>> of the binary fraction a / b, for which                   *)
(* positive_proportion and 1 - positive_proportion are exact floats and    *)
(* int() of the quotients below is the floor of the exact quotient.        *)
(***************************************************************************)
\* The orders np.random.shuffle can leave the elements of S in.
Shuffles(S) ==
    {s \in [1..Cardinality(S) -> S] : \A i, j \in 1..Cardinality(S) : s[i] = s[j] => i = j}

Range(s) == {s[i] : i \in 1..Len(s)}

\* A variant of balanced_lengths, below, with every negative index kept.
balanced_lengths_all_negatives(init_len_p, init_len_n, a, b) ==
    IF a = b THEN [len_p |-> init_len_p, len_n |-> 0]
    ELSE IF a = 0 THEN [len_p |-> 0, len_n |-> init_len_n]
    ELSE [len_p |-> Min(init_len_p, FloorDiv(a * init_len_n, b - a)), len_n |-> init_len_n]

\* len_p and len_n (data.py 424-437)
balanced_lengths(init_len_p, init_len_n, a, b) ==
    IF a = b THEN [len_p |-> init_len_p, len_n |-> 0]
    ELSE IF a = 0 THEN [len_p |-> 0, len_n |-> init_len_n]
    ELSE LET len_p == Min(init_len_p, FloorDiv(a * init_len_n, b - a))
         IN  [len_p |-> len_p, len_n |-> FloorDiv((b - a) * len_p, a)]

\* BalancedDataset.__init__ (data.py 383-446): the values self.indices can
\* have.  np.sort returns a sorted copy, which is dropped, so that with a
\* seed as without one the arrays are shuffled from the order list(set)
\* gave them.
BalancedDataset(length, positive_set, a, b) ==
    LET negative_set == (0..(length - 1)) \ positive_set
        lens == balanced_lengths(Cardinality(positive_set), Cardinality(negative_set), a, b)
    IN  UNION { UNION { LET positive_indices == SubSeq(p, 1, Min(lens.len_p, Len(p)))
                            negative_indices == SubSeq(n, 1, Min(lens.len_n, Len(n)))
                        IN  Shuffles(Range(positive_indices \o negative_indices))
                        : n \in Shuffles(negative_set) }
                : p \in Shuffles(positive_set) }

(***************************************************************************)
(* The balanced view on its own, over datasets of bounded length.          *)
(***************************************************************************)
MaxLen == 4            \* len(dataset)

Proportions == {<<0, 1>>, <<1, 4>>, <<1, 2>>, <<3, 4>>, <<1, 1>>}

InitBalanced ==
    /\ dataset = Nil /\ view = Nil /\ file = Nil /\ args = Nil /\ ret = Nil

\* BalancedDataset(dataset, positive_set, positive_proportion, seed)
NewBalancedDataset ==
    /\ args.op = "none"
    /\ \E length \in 0..MaxLen, proportion \in Proportions, seed \in {None, 0} :
          \E positive_set \in SUBSET (0..(length - 1)) :
             \E indices \in BalancedDataset(length, positive_set, proportion[1], proportion[2]) :
                /\ dataset' = [length |-> length]
                /\ args' = [op |-> "BalancedDataset", positive_set |-> positive_set,
                            positive_proportion |-> proportion, seed |-> seed]
                /\ view' = [indices |-> indices]
    /\ UNCHANGED <<file, ret>>

\* len(balanced) (data.py 455-456)
BalancedLen ==
    /\ args.op = "BalancedDataset" /\ ret = Nil
    /\ ret' = [raised |-> NoError, len |-> Len(view.indices)]
    /\ UNCHANGED <<dataset, view, file, args>>

ReturnBalanced ==
    /\ args.op # "none"
    /\ dataset' = Nil /\ view' = Nil /\ args' = Nil /\ ret' = Nil
    /\ UNCHANGED file

NextBalanced == NewBalancedDataset \/ BalancedLen \/ ReturnBalanced

SpecBalanced == InitBalanced /\ [][NextBalanced]_vars

\* The positive and the negative ids of the wrapped dataset.
PositiveIds == args.positive_set
NegativeIds == (0..(dataset.length - 1)) \ args.positive_set

\* The entries of the view that are in S.
Entries(S) == {i \in 1..Len(view.indices) : view.indices[i] \in S}

\* C5: a BalancedDataset built with positive_proportion 0.5 over |P|
\* positive and |N| >= |P| negative ids has exactly 2|P| entries, |P| of
\* them positive ids and |P| of them negative ids.
C5_HalfBalanced ==
    (/\ args.op = "BalancedDataset"
     /\ args.positive_proportion = <<1, 2>>
     /\ Cardinality(NegativeIds) >= Cardinality(PositiveIds)) =>
        /\ Len(view.indices) = 2 * Cardinality(PositiveIds)
        /\ Cardinality(Entries(PositiveIds)) = Cardinality(PositiveIds)
        /\ Cardinality(Entries(NegativeIds)) = Cardinality(PositiveIds)

\* A view built at proportion 0.5 over one positive and three negative ids,
\* whose length has been taken.
C5_Witness ==
    /\ args.op = "BalancedDataset" /\ args.positive_proportion = <<1, 2>>
    /\ Cardinality(PositiveIds) = 1 /\ Cardinality(NegativeIds) = 3
    /\ ret # Nil /\ ret.len = 2

(***************************************************************************)
(* data.py: BalancedDataset with a seed.  np.random.seed(seed) puts the    *)
(* generator in a state the seed fixes, so each of the three shuffles that *)
(* follow moves the positions of its array by a permutation that the seed  *)
(* and the lengths of the arrays fix.  list(positive_set) gives the ids in *)
(* the order the set iterates in, which depends on how the set was built:  *)
(* list({0, 8}) is [0, 8] and list({8, 0}) is [8, 0].                      *)
(***************************************************************************)
\* np.random.shuffle(arr) under the permutation perm of the positions
shuffle(arr, perm) == [i \in 1..Len(arr) |-> arr[perm[i]]]

\* np.sort(indices) (data.py 413-414): the sorted copy it returns is
\* dropped, the array is as it was.
np_sort(indices) == indices

\* The ids of S in ascending order.
RECURSIVE ascending(_)
ascending(S) ==
    IF S = {} THEN <<>>
    ELSE LET least == CHOOSE x \in S : \A y \in S : x <= y
         IN  <<least>> \o ascending(S \ {least})

\* BalancedDataset.__init__ (data.py 407-444) with seed # None:
\* positive_order is list(positive_set); perm_p, perm_n and perm_all are the
\* permutations of the three shuffles.  set(range(len(dataset))) and its
\* difference with positive_set iterate in ascending order.
seeded_indices(length, positive_order, a, b, perm_p, perm_n, perm_all) ==
    LET negative_order == ascending((0..(length - 1)) \ Range(positive_order))
        lens == balanced_lengths(Len(positive_order), Len(negative_order), a, b)
        positive_indices == shuffle(np_sort(positive_order), perm_p)
        negative_indices == shuffle(np_sort(negative_order), perm_n)
        indices == SubSeq(positive_indices, 1, Min(lens.len_p, Len(positive_indices)))
                       \o SubSeq(negative_indices, 1, Min(lens.len_n, Len(negative_indices)))
    IN  shuffle(indices, perm_all)

(***************************************************************************)
(* Two constructions with the same arguments.  The second one starts from  *)
(* whatever state the generator is in; with a seed it is put back in the   *)
(* state of the first.                                                     *)
(***************************************************************************)
MaxSeededLen == 3      \* len(dataset)

\* The permutations of the positions of an array of n items.
Perms(n) == Shuffles(1..n)

InitSeeded ==
    /\ dataset = Nil /\ view = <<>> /\ file = Nil /\ args = Nil /\ ret = Nil

\* The first BalancedDataset(dataset, positive_set, positive_proportion, seed):
\* ret keeps the permutations the generator gave.
NewSeeded ==
    /\ args.op = "none"
    /\ \E length \in 0..MaxSeededLen, proportion \in Proportions, seed \in {None, 7} :
         \E positive_set \in SUBSET (0..(length - 1)) :
           LET lens == balanced_lengths(Cardinality(positive_set),
                                        length - Cardinality(positive_set),
                                        proportion[1], proportion[2])
           IN  \E positive_order \in Shuffles(positive_set),
                  perm_p \in Perms(Cardinality(positive_set)),
                  perm_n \in Perms(length - Cardinality(positive_set)),
                  perm_all \in Perms(lens.len_p + lens.len_n) :
                  /\ dataset' = [length |-> length]
                  /\ args' = [op |-> "BalancedDataset", positive_set |-> positive_set,
                              positive_proportion |-> proportion, seed |-> seed]
                  /\ ret' = [perm_p |-> perm_p, perm_n |-> perm_n, perm_all |-> perm_all]
                  /\ view' = <<[indices |->
                                  seeded_indices(length, positive_order, proportion[1],
                                                 proportion[2], perm_p, perm_n, perm_all)]>>
    /\ UNCHANGED file

\* The same call again, on an equal positive_set.
NewSeededAgain ==
    /\ args.op = "BalancedDataset" /\ Len(view) = 1
    /\ \E positive_order \in Shuffles(args.positive_set),
          perm_p \in Perms(Len(ret.perm_p)), perm_n \in Perms(Len(ret.perm_n)),
          perm_all \in Perms(Len(ret.perm_all)) :
          /\ args.seed # None =>
                (perm_p = ret.perm_p /\ perm_n = ret.perm_n /\ perm_all = ret.perm_all)
          /\ view' = Append(view,
                        [indices |->
                            seeded_indices(dataset.length, positive_order,
                                           args.positive_proportion[1],
                                           args.positive_proportion[2],
                                           perm_p, perm_n, perm_all)])
    /\ UNCHANGED <<dataset, file, args, ret>>

ReturnSeeded ==
    /\ args.op # "none"
    /\ dataset' = Nil /\ view' = <<>> /\ args' = Nil /\ ret' = Nil
    /\ UNCHANGED file

NextSeeded == NewSeeded \/ NewSeededAgain \/ ReturnSeeded

SpecSeeded == InitSeeded /\ [][NextSeeded]_vars

\* C11: two BalancedDataset constructions over the same dataset and the same
\* positive set, with the same positive_proportion and the same seed that
\* is not None, have the same sequence of indices.
C11_SameSeedSameIndices ==
    (args.op = "BalancedDataset" /\ args.seed # None /\ Len(view) = 2) =>
        view[1].indices = view[2].indices

(***************************************************************************)
(* data.py: BalancedIterableDataset.  __iter__ is a generator function:    *)
(* its body starts at the first next() on the generator it returns, and    *)
(* each later next() resumes it after the yield.  The pools and the flag   *)
(* next_is_positive are attributes of the dataset object, shared by every  *)
(* generator made from it.                                                 *)
(***************************************************************************)
MaxIterLen == 3        \* len(dataset)
MaxEpoch == 4          \* largest explicit epoch_size
PassIds == {1}         \* the generator that is alive

\* A variant that indexes the pool by the position in the pass.
draw_position_whole(i) == i

\* The pool index of the draw at position i of a pass (data.py 555, 559)
draw_position(i) == i \div 2

\* BalancedIterableDataset.__init__ (data.py 533-546)
BalancedIterableDataset(length, positive_set, epoch_size) ==
    LET negative_set == (0..(length - 1)) \ positive_set
    IN  [positive_indices |-> ascending(positive_set),
         negative_indices |-> ascending(negative_set),
         next_is_positive |-> TRUE,
         epoch_size |-> IF epoch_size = None
                        THEN 2 * Min(Cardinality(positive_set), Cardinality(negative_set))
                        ELSE epoch_size]

\* A generator on which next() was not called yet.
NewPass ==
    [state |-> "new", i |-> 0, draws |-> <<>>, positive_pool |-> <<>>,
     negative_pool |-> <<>>]

InitIterable ==
    /\ dataset = Nil /\ view = Nil /\ file = Nil /\ args = Nil /\ ret = Nil

\* BalancedIterableDataset(dataset, positive_set, epoch_size) and iter() on it
NewBalancedIterable ==
    /\ dataset = Nil
    /\ \E length \in 0..MaxIterLen, epoch_size \in {None} \cup (0..MaxEpoch) :
         \E positive_set \in SUBSET (0..(length - 1)) :
            /\ dataset' = [length |-> length]
            /\ view' = BalancedIterableDataset(length, positive_set, epoch_size)
    /\ args' = [g \in PassIds |-> NewPass]
    /\ UNCHANGED <<file, ret>>

\* next(g) on the generator g of iter(view): the first one runs the two
\* shuffles (data.py 549-550), every one runs the loop up to its next yield
\* (data.py 552-560).  The draws of the pass and the two pools as the pass
\* shuffled them are kept for the record.
Draw(g) ==
    /\ args[g].state \in {"new", "running"}
    /\ \E perm_p \in Perms(Len(view.positive_indices)),
          perm_n \in Perms(Len(view.negative_indices)) :
          /\ args[g].state = "running" =>
                (perm_p = [k \in 1..Len(perm_p) |-> k] /\ perm_n = [k \in 1..Len(perm_n) |-> k])
          /\ LET fresh == args[g].state = "new"
                 positive_indices == shuffle(view.positive_indices, perm_p)
                 negative_indices == shuffle(view.negative_indices, perm_n)
                 started == [args[g] EXCEPT
                                !.state = "running",
                                !.positive_pool = IF fresh THEN positive_indices ELSE @,
                                !.negative_pool = IF fresh THEN negative_indices ELSE @]
                 pool == IF view.next_is_positive THEN positive_indices ELSE negative_indices
             IN  IF started.i >= view.epoch_size
                 THEN /\ view' = [view EXCEPT !.positive_indices = positive_indices,
                                              !.negative_indices = negative_indices]
                      /\ args' = [args EXCEPT ![g] = [started EXCEPT !.state = "done"]]
                      /\ ret' = [op |-> "next", pass |-> g, raised |-> "StopIteration"]
                 ELSE /\ view' = [view EXCEPT !.positive_indices = positive_indices,
                                              !.negative_indices = negative_indices,
                                              !.next_is_positive = ~view.next_is_positive]
                      /\ IF draw_position(started.i) >= Len(pool)
                         THEN /\ args' = [args EXCEPT ![g] = [started EXCEPT !.state = "raised"]]
                              /\ ret' = [op |-> "next", pass |-> g, raised |-> "IndexError"]
                         ELSE /\ args' = [args EXCEPT ![g] =
                                            [started EXCEPT
                                                !.i = @ + 1,
                                                !.draws = Append(@,
                                                    [positive |-> view.next_is_positive,
                                                     idx |-> pool[draw_position(started.i) + 1]])]]
                              /\ ret' = [op |-> "next", pass |-> g, raised |-> NoError]

NextDraw ==
    /\ dataset # Nil
    /\ \E g \in PassIds : Draw(g)
    /\ UNCHANGED <<dataset, file>>

\* The generator is dropped, finished or not, and iter(view) makes the one
\* of the next pass.
NewIter ==
    /\ dataset # Nil
    /\ \E g \in PassIds :
         /\ args[g].state # "new"
         /\ args' = [args EXCEPT ![g] = NewPass]
    /\ UNCHANGED <<dataset, view, file, ret>>

ReturnIterable ==
    /\ dataset # Nil
    /\ dataset' = Nil /\ view' = Nil /\ args' = Nil /\ ret' = Nil
    /\ UNCHANGED file

NextIterable == NewBalancedIterable \/ NextDraw \/ NewIter \/ ReturnIterable

SpecIterable == InitIterable /\ [][NextIterable]_vars

\* The passes of the dataset object, made one after another.
Passes == IF dataset = Nil THEN {} ELSE PassIds

\* C12: in every pass, the first one and every later one, for even and odd
\* epoch_size, two consecutive draws come from different pools, and the
\* draw at position i is element floor(i/2) of the pool it comes from, as
\* the pass shuffled it.
C12_AlternatingDraws ==
    \A g \in Passes :
        \A k \in 1..Len(args[g].draws) :
            LET draw == args[g].draws[k]
                pool == IF draw.positive THEN args[g].positive_pool ELSE args[g].negative_pool
            IN  /\ k > 1 => draw.positive # args[g].draws[k - 1].positive
                /\ (k - 1) \div 2 + 1 <= Len(pool)
                /\ draw.idx = pool[(k - 1) \div 2 + 1]

\* A later pass of an odd epoch_size that started with the negative pool
\* has made three draws.
C12_Witness ==
    /\ dataset # Nil
    /\ \E g \in Passes :
         /\ view.epoch_size % 2 = 1
         /\ Len(args[g].draws) >= 3
         /\ ~args[g].draws[1].positive

(***************************************************************************)
(* writeBinaries.py: the length tests of writeContoursBinary on long       *)
(* strings.  A string is given by its number of characters and the number  *)
(* of UTF-8 bytes of each of its characters (1 for "a", 2 for "e" with an  *)
(* acute accent, 3 for the euro sign).                                     *)
(***************************************************************************)
StringLengths == {0, 1, 21845, 21846, 32767, 32768, 65535, 65536, 65537}
CharWidths == {1, 2, 3}
LongStrings == [chars : StringLengths, width : CharWidths]

\* len(strval.encode("utf-8"))
utf8_len(strval) == strval.chars * strval.width

\* writeContoursBinary(filename, [contour], comment = comment,
\* timestamp = timestamp, species = True, call = True), as far as the
\* lengths of the four strings decide it (writeBinaries.py 104-107,
\* 122-135): the error that ends the call.
long_strings_raise(comment, timestamp, species, call) ==
    IF comment.chars > 0 /\ utf8_string_length_raises(comment.chars) # NoError
    THEN utf8_string_length_raises(comment.chars)
    ELSE IF timestamp.chars > 0 THEN "TypeError"
    ELSE IF name_length_raises(species.chars) # NoError THEN name_length_raises(species.chars)
    ELSE name_length_raises(call.chars)

InitLimits ==
    /\ dataset = Nil /\ view = Nil /\ file = Nil /\ args = Nil /\ ret = Nil

WriteLongStrings ==
    /\ args.op = "none"
    /\ \E comment \in LongStrings, species \in LongStrings, call \in LongStrings :
         \E timestamp \in {t \in LongStrings : t.chars <= 1} :
            /\ args' = [op |-> "writeContoursBinary", comment |-> comment,
                        timestamp |-> timestamp, species |-> species, call |-> call]
            /\ file' = [raised |-> long_strings_raise(comment, timestamp, species, call)]
    /\ UNCHANGED <<dataset, view, ret>>

ReturnLimits ==
    /\ args.op # "none"
    /\ args' = Nil /\ file' = Nil
    /\ UNCHANGED <<dataset, view, ret>>

NextLimits == WriteLongStrings \/ ReturnLimits

SpecLimits == InitLimits /\ [][NextLimits]_vars

\* The strings of the call in args.
StringFields == {args.comment, args.timestamp, args.species, args.call}

\* C13: the encoding fails with the error of a field that is too long if
\* and only if one of comment, timestamp, species and call is longer than
\* 65535 UTF-8 bytes.
C13_TooLongIffOver65535Bytes ==
    args.op = "writeContoursBinary" =>
        (file.raised = "RuntimeError" <=> \E strval \in StringFields : utf8_len(strval) > 65535)

\* The time and frequency doubles of the (time, frequency) tuples of a
\* contour, in order.
RECURSIVE TupleBytes(_)
TupleBytes(tfnodes) ==
    IF tfnodes = <<>> THEN <<>>
    ELSE pack_d(Head(tfnodes).time) \o pack_d(Head(tfnodes).freq) \o TupleBytes(Tail(tfnodes))

\* The graph id, the node count and the doubles of each contour of a list
\* of lists of tuples.
RECURSIVE TupleListBytes(_)
TupleListBytes(contours) ==
    IF contours = <<>> THEN <<>>
    ELSE zeroGraphId \o to_bytes(Len(Head(contours).tfnodes), INT_LEN)
             \o TupleBytes(Head(contours).tfnodes) \o TupleListBytes(Tail(contours))

\* C14: writeTimeFrequencyBinary on a non-empty list of lists of
\* (time, frequency) tuples writes a file: the header with the bitmask
\* TIME|FREQ, then per contour the graph id, the node count and the time and
\* frequency doubles of each tuple in order.
C14_TupleListWritten ==
    (args.op = "writeTimeFrequencyBinary" /\ ~args.is_dataclass /\ Len(args.contours) > 0) =>
        /\ file.raised = NoError
        /\ file.bytes = HEADER_STR \o to_bytes(DET_VERSION, SHORT_LEN)
                            \o to_bytes(TIME + FREQ, SHORT_LEN)
                            \o to_bytes(args.userVersion, SHORT_LEN)
                            \o to_bytes(3 * SHORT_LEN + INT_LEN + Len(HEADER_STR), INT_LEN)
                            \o TupleListBytes(args.contours)

(***************************************************************************)
(* render.py: expand_annotation_mask.  A mask is its shape and the set of  *)
(* its pixels <<row, column>> that are 1; a spectrogram is a sequence of   *)
(* rows of energies.  threshold and min_snr are fractions <<numerator,     *)
(* denominator>>, and the empty tuple stands for min_snr = None.  Energies *)
(* are magnitudes, never negative, so a quotient is compared with a        *)
(* fraction by cross-multiplication.                                       *)
(***************************************************************************)
\* spectrogram[i, j]
energy(spectrogram, i, j) == spectrogram[i + 1][j + 1]

\* The sum of the energies of the pixels of S
RECURSIVE energy_sum(_, _)
energy_sum(S, spectrogram) ==
    IF S = {} THEN 0
    ELSE LET px == CHOOSE x \in S : TRUE
         IN  energy(spectrogram, px[1], px[2]) + energy_sum(S \ {px}, spectrogram)

\* range(j - 1, min_j - 1, -1) (render.py 315)
left_range(j, min_j) == [k \in 1..Max(0, j - min_j) |-> j - k]

\* range(j + 1, max_j) (render.py 315)
right_range(j, max_j) == [k \in 1..Max(0, max_j - j - 1) |-> j + k]

\* spectrogram[i, jp] / background_energy < min_snr (render.py 326), with
\* background_energy = background[1] / background[2].  A background of 0
\* makes the quotient nan, which is below nothing; jp is then a pixel of
\* energy 0 and both sides of the comparison are 0.
below_snr(e, background, min_snr) ==
    e * background[2] * min_snr[2] < min_snr[1] * background[1]

\* spectrogram[i, jp] / tonal_energy < threshold (render.py 328)
below_threshold(e, tonal_energy, threshold) ==
    e * threshold[2] < threshold[1] * tonal_energy

\* The inner loop of expand_annotation_mask (render.py 321-332) along one
\* direction: the pixels it sets.
RECURSIVE widen(_, _, _, _, _, _, _, _)
widen(ones, spectrogram, i, direction, tonal_energy, background, threshold, min_snr) ==
    IF direction = <<>> THEN {}
    ELSE IF <<i, Head(direction)>> \in ones
    THEN widen(ones, spectrogram, i, Tail(direction), tonal_energy, background, threshold, min_snr)
    ELSE IF min_snr # <<>> /\ below_snr(energy(spectrogram, i, Head(direction)), background, min_snr)
    THEN {}
    ELSE IF below_threshold(energy(spectrogram, i, Head(direction)), tonal_energy, threshold)
    THEN {}
    ELSE {<<i, Head(direction)>>}
             \cup widen(ones, spectrogram, i, Tail(direction), tonal_energy, background, threshold, min_snr)

\* One pass of the outer loop (render.py 307-332), for the pixel (i, j) of
\* annotation_mask that is 1: the pixels it sets.
widen_seed(annotation_mask, spectrogram, i, j, background, threshold, max_distance, min_snr) ==
    LET min_j == Max(0, j - max_distance)
        max_j == Min(j + max_distance, annotation_mask.shape[2])
        tonal_energy == energy(spectrogram, i, j)
    IN  IF tonal_energy = 0 THEN {}
        ELSE widen(annotation_mask.ones, spectrogram, i, left_range(j, min_j),
                   tonal_energy, background, threshold, min_snr)
             \cup widen(annotation_mask.ones, spectrogram, i, right_range(j, max_j),
                        tonal_energy, background, threshold, min_snr)

\* expand_annotation_mask (render.py 283-334)
expand_annotation_mask(annotation_mask, spectrogram, threshold, max_distance, min_snr) ==
    LET zeros == ((0..(annotation_mask.shape[1] - 1)) \X (0..(annotation_mask.shape[2] - 1)))
                     \ annotation_mask.ones
        background == <<energy_sum(zeros, spectrogram), Cardinality(zeros)>>
    IN  IF annotation_mask.ones = {} THEN annotation_mask
        ELSE [shape |-> annotation_mask.shape,
              ones |-> annotation_mask.ones \cup
                       UNION {widen_seed(annotation_mask, spectrogram, px[1], px[2],
                                         background, threshold, max_distance, min_snr) :
                              px \in annotation_mask.ones}]

MaxWidth == 5          \* columns of the mask
MaxDistance == 2       \* largest max_distance
Energies == {0, 1, 2}
Thresholds == {<<0, 1>>, <<1, 2>>, <<9, 10>>}
MinSnrs == {<<>>, <<1, 1>>}

InitExpand ==
    /\ dataset = Nil /\ view = Nil /\ file = Nil /\ args = Nil /\ ret = Nil

\* expand_annotation_mask on a mask and a spectrogram of one row
ExpandAnnotationMask ==
    /\ args.op = "none"
    /\ \E W \in 1..MaxWidth, max_distance \in 1..MaxDistance,
          threshold \in Thresholds, min_snr \in MinSnrs :
         \E ones \in SUBSET ({0} \X (0..(W - 1))), row \in [1..W -> Energies] :
            /\ args' = [op |-> "expand_annotation_mask",
                        annotation_mask |-> [shape |-> <<1, W>>, ones |-> ones],
                        spectrogram |-> <<row>>, threshold |-> threshold,
                        max_distance |-> max_distance, min_snr |-> min_snr]
            /\ ret' = expand_annotation_mask([shape |-> <<1, W>>, ones |-> ones], <<row>>,
                                             threshold, max_distance, min_snr)
    /\ UNCHANGED <<dataset, view, file>>

ReturnExpand ==
    /\ args.op # "none"
    /\ args' = Nil /\ ret' = Nil
    /\ UNCHANGED <<dataset, view, file>>

NextExpand == ExpandAnnotationMask \/ ReturnExpand

SpecExpand == InitExpand /\ [][NextExpand]_vars

\* The pixels of the input mask, and the pixels the call has set.
Seeds == args.annotation_mask.ones
NewlySet == ret.ones \ args.annotation_mask.ones

\* C15: with max_distance = 1 the returned mask is the input mask, for every
\* spectrogram, threshold and min_snr; with max_distance = 2 every pixel
\* that is set is next to a pixel of the input mask in its row.
C15_NoExpansionAtDistanceOne ==
    args.op = "expand_annotation_mask" =>
        /\ args.max_distance = 1 => ret = args.annotation_mask
        /\ args.max_distance = 2 =>
              \A px \in NewlySet :
                  \E seed \in Seeds : seed[1] = px[1] /\ Abs(seed[2] - px[2]) <= 1

\* A candidate pixel passes both tests of the growth from the seed.
Qualifies(seed, jp) ==
    LET zeros == ((0..(args.annotation_mask.shape[1] - 1))
                      \X (0..(args.annotation_mask.shape[2] - 1))) \ Seeds
        e == energy(args.spectrogram, seed[1], jp)
    IN  /\ ~below_threshold(e, energy(args.spectrogram, seed[1], seed[2]), args.threshold)
        /\ args.min_snr # <<>> =>
              ~below_snr(e, <<energy_sum(zeros, args.spectrogram), Cardinality(zeros)>>,
                         args.min_snr)

\* C20: when the row has the columns j - max_distance .. j + max_distance
\* of a seed at column j with energy and every candidate among them
\* qualifies, all of them are set in the result; and no pixel farther than
\* max_distance columns from every seed of its row is newly set.
C20_GrowthBothSides ==
    args.op = "expand_annotation_mask" =>
        /\ \A seed \in Seeds :
              LET around == (seed[2] - args.max_distance)..(seed[2] + args.max_distance)
              IN  (/\ seed[2] - args.max_distance >= 0
                   /\ seed[2] + args.max_distance <= args.annotation_mask.shape[2] - 1
                   /\ energy(args.spectrogram, seed[1], seed[2]) > 0
                   /\ \A jp \in around : <<seed[1], jp>> \notin Seeds => Qualifies(seed, jp))
                  => \A jp \in around : <<seed[1], jp>> \in ret.ones
        /\ \A px \in NewlySet :
              \E seed \in Seeds :
                  seed[1] = px[1] /\ Abs(seed[2] - px[2]) <= args.max_distance

(***************************************************************************)
(* data.py, render.py: the cached waveforms.  With cache_wavs the Wav      *)
(* object read at load is kept in file_info and the same object is handed  *)
(* to getFrames at every fetch; without it the file is read again at every *)
(* fetch.  Here the sample values are modelled, with one patch per sample: *)
(* the tile of a patch is a function of the samples that getFrames cuts,   *)
(* and stands here as those samples.                                       *)
(***************************************************************************)
MaxCacheFiles == 2     \* audio files of the corpus
PatchesPerFile == 2    \* samples, and patches, of a file
SampWidths == {2, 3}
SampleValues == {0 - 70000, 0 - 300, 300, 70000}

\* A wavio.Wav with its sample values, each within the range of its width
SampledWavs ==
    {wav \in [sampwidth : SampWidths, data : [1..PatchesPerFile -> SampleValues]] :
        \A k \in 1..PatchesPerFile : Abs(wav.data[k]) < 2 ^ (8 * wav.sampwidth - 1)}

\* getFrames (render.py 14-22) up to the rescaling: wav.data //= 2 ** (8 *
\* (sampwidth - 2)) changes the array of the Wav object it was given.
rescale(wav) ==
    IF wav.sampwidth > 2
    THEN [wav EXCEPT !.data = [k \in 1..Len(wav.data) |->
                                  FloorDiv(wav.data[k], 2 ^ (8 * (wav.sampwidth - 2)))]]
    ELSE wav

InitCache ==
    /\ dataset = Nil /\ view = Nil /\ file = Nil /\ args = Nil /\ ret = Nil

\* AudioTonalDataset.__init__ (data.py 121, 140-163): file holds the audio
\* files on disk, dataset the object with its cache, view the first and the
\* latest tile fetched for each global id.
LoadCorpus ==
    /\ dataset = Nil
    /\ \E n \in 1..MaxCacheFiles, cache_wavs \in BOOLEAN :
         \E wavs \in [1..n -> SampledWavs] :
            /\ file' = [wavs |-> wavs]
            /\ dataset' = [cache_wavs |-> cache_wavs,
                           file_info |-> [i \in 1..n |->
                                             [wav_data |-> IF cache_wavs THEN wavs[i] ELSE None]]]
            /\ view' = [idx \in 0..(n * PatchesPerFile - 1) |-> <<>>]
    /\ UNCHANGED <<args, ret>>

\* get_datum(idx) (data.py 326-342) and getFrames (render.py 14-22)
FetchPatch ==
    /\ dataset # Nil
    /\ \E idx \in DOMAIN view :
         LET file_idx == (idx \div PatchesPerFile) + 1
             wav_data == IF dataset.cache_wavs THEN dataset.file_info[file_idx].wav_data
                         ELSE file.wavs[file_idx]
             rescaled == rescale(wav_data)
             datum == <<rescaled.data[(idx % PatchesPerFile) + 1]>>
         IN  /\ dataset' = IF dataset.cache_wavs
                           THEN [dataset EXCEPT !.file_info[file_idx].wav_data = rescaled]
                           ELSE dataset
             /\ view' = [view EXCEPT ![idx] = IF @ = <<>> THEN <<datum, datum>>
                                              ELSE <<@[1], datum>>]
             /\ ret' = [datum |-> datum]
    /\ UNCHANGED <<file, args>>

ReturnCache ==
    /\ dataset # Nil
    /\ dataset' = Nil /\ view' = Nil /\ file' = Nil /\ ret' = Nil
    /\ UNCHANGED args

NextCache == LoadCorpus \/ FetchPatch \/ ReturnCache

SpecCache == InitCache /\ [][NextCache]_vars

\* C16: after any sequence of patch fetches the cached waveform of every
\* file is what it was at load, and a global id fetched again gives the
\* tile it gave the first time, for every sample width.
C16_CacheUnchanged ==
    dataset # Nil =>
        /\ dataset.cache_wavs =>
              \A i \in 1..Len(file.wavs) : dataset.file_info[i].wav_data = file.wavs[i]
        /\ \A idx \in DOMAIN view : view[idx] # <<>> => view[idx][1] = view[idx][2]

\* C17: every file's patch count num_freq_divisions * num_time_divisions is
\* at least 0, so that the cumulative patch counts over the files never
\* decrease, also for files shorter than one patch plus one frame and for
\* files whose Nyquist frequency leaves less than one patch above min_freq.
C17_PatchCountsMonotonic ==
    /\ \A k \in 1..Len(dataset.num_patches) : dataset.num_patches[k] >= 0
    /\ \A k \in 2..Len(dataset.num_patches) :
          cumsum(dataset.num_patches)[k - 1] <= cumsum(dataset.num_patches)[k]

\* The top of the mask in Hz (render.py 202), and the pixels of the line
\* from node k to node k + 1 of a contour, drawn as the loop of
\* getAnnotationMask draws a line between two nodes.
MaskTop == args.max_freq - PyMod(args.max_freq, freq_resolution(args.frame_time_span))

SegmentPixels(a, k) ==
    DrawSegment((a[k][1] - args.start_time) * ret.shape[2], MaskTop - a[k][2],
                (a[k + 1][1] - args.start_time) * ret.shape[2], MaskTop - a[k + 1][2],
                a[k + 1][2], args.end_time - args.start_time,
                freq_resolution(args.frame_time_span), ret.shape[2], ret.shape[1],
                args.line_thickness)

\* C18: every pixel getAnnotationMask sets lies (up to rounding and
\* line_thickness) on the line between some node k and node k + 1 of a
\* contour, also after earlier segments of the contour were skipped for
\* lying before the window or outside the frequency range.
C18_OnlyConsecutiveSegments ==
    (args.op = "getAnnotationMask" /\ ret.raised = NoError) =>
        ret.ones \subseteq
            UNION {SegmentPixels(args.annotations[i], k) :
                      <<i, k>> \in {x \in (1..Len(args.annotations)) \X (1..MaxNodes) :
                                       x[2] < Len(args.annotations[x[1]])}}

\* C19: for a segment whose two nodes are at the same time, the pixel at
\* the row round((max_freq - freq) / freq_resolution) of the endpoint and
\* at its time column is set when both are inside the image (and
\* line_thickness is at least 1).
C19_VerticalSegmentRow ==
    (args.op = "getAnnotationMask" /\ ret.raised = NoError /\ args.line_thickness >= 1) =>
        \A i \in 1..Len(args.annotations) :
            LET a == args.annotations[i]
                row == Round(MaskTop - a[2][2], freq_resolution(args.frame_time_span))
                column == PixelColumn(a[2][1])
            IN  (/\ Len(a) >= 2 /\ a[1][1] = a[2][1]
                 /\ a[Len(a)][1] >= args.start_time /\ a[1][1] < args.end_time
                 /\ 0 <= row /\ row < ret.shape[1]
                 /\ 0 <= column /\ column < ret.shape[2])
                => <<row, column>> \in ret.ones

\* The bytes of the header that come before the optional strings: the
\* magic string, version, bitmask, user version and header size.
FixedHeaderLen == Len(HEADER_STR) + 3 * SHORT_LEN + INT_LEN

\* A string as the format holds it: its number of UTF-8 bytes on two bytes,
\* then the bytes.
PrefixedString(strval) == to_bytes(Len(encode(strval)), SHORT_LEN) \o encode(strval)

\* The bytes a file holds from position at + 1 on, as many as n.
BytesAt(at, n) == SubSeq(file.bytes, at + 1, at + n)

\* C21: with a non-empty timestamp writeContoursBinary completes without
\* error, sets the TIMESTAMP bit of the bitmask and writes the timestamp,
\* its length on two bytes and then its UTF-8 bytes, in the header after the
\* optional comment and before the first contour.
C21_TimestampWritten ==
    (args.op = "writeContoursBinary" /\ args.timestamp # <<>>) =>
        /\ file.raised = NoError
        /\ HasBit(from_bytes(BytesAt(Len(HEADER_STR) + SHORT_LEN, SHORT_LEN)), TIMESTAMP)
        /\ LET at == FixedHeaderLen
                       + (IF args.comment # <<>> THEN Len(PrefixedString(args.comment)) ELSE 0)
           IN  BytesAt(at, Len(PrefixedString(args.timestamp)))
                   = PrefixedString(args.timestamp)

\* C22: in every file written without error the declared headerSize is the
\* number of bytes written for the magic string, the fixed header and the
\* optional comment and timestamp, and the two-byte prefix of the comment
\* and of the first contour's species is the number of UTF-8 bytes of the
\* string that follows, multi-byte characters included.
C22_DeclaredSizesAreByteCounts ==
    /\ (args.op = "writeTimeFrequencyBinary" /\ file.raised = NoError) =>
          from_bytes(BytesAt(Len(HEADER_STR) + 3 * SHORT_LEN, INT_LEN)) = FixedHeaderLen
    /\ (args.op = "writeContoursBinary" /\ file.raised = NoError) =>
          LET strings == (IF args.comment # <<>> THEN Len(PrefixedString(args.comment)) ELSE 0)
                           + (IF args.timestamp # <<>>
                              THEN Len(PrefixedString(args.timestamp)) ELSE 0)
              species_at == FixedHeaderLen + strings
                               + (IF args.flags.confidence THEN DOUBLE_LEN ELSE 0)
                               + (IF args.flags.score THEN DOUBLE_LEN ELSE 0)
          IN  /\ from_bytes(BytesAt(Len(HEADER_STR) + 3 * SHORT_LEN, INT_LEN))
                    = FixedHeaderLen + strings
              /\ args.comment # <<>> =>
                    from_bytes(BytesAt(FixedHeaderLen, SHORT_LEN)) = Len(encode(args.comment))
              /\ (args.flags.species /\ Len(args.contours) > 0) =>
                    from_bytes(BytesAt(species_at, SHORT_LEN))
                        = Len(encode(args.contours[1].species))

(***************************************************************************)
(* data.py: two generators of one BalancedIterableDataset that are alive   *)
(* at the same time, e.g. zip(iter(view), iter(view)).  Each next() runs   *)
(* to its yield before another one starts; which generator is asked next   *)
(* is up to the caller.                                                    *)
(***************************************************************************)
BothPasses == {1, 2}

InitInterleaved ==
    /\ dataset = Nil /\ view = Nil /\ file = Nil /\ args = Nil /\ ret = Nil

\* BalancedIterableDataset(dataset, positive_set, epoch_size) and two
\* iter() on it
NewSharedIterable ==
    /\ dataset = Nil
    /\ \E length \in 0..MaxIterLen, epoch_size \in {None} \cup (0..MaxEpoch) :
         \E positive_set \in SUBSET (0..(length - 1)) :
            /\ dataset' = [length |-> length]
            /\ view' = BalancedIterableDataset(length, positive_set, epoch_size)
    /\ args' = [g \in BothPasses |-> NewPass]
    /\ UNCHANGED <<file, ret>>

\* next() on one of the two generators
DrawInterleaved ==
    /\ dataset # Nil
    /\ \E g \in BothPasses : Draw(g)
    /\ UNCHANGED <<dataset, file>>

ReturnInterleaved ==
    /\ dataset # Nil
    /\ dataset' = Nil /\ view' = Nil /\ args' = Nil /\ ret' = Nil
    /\ UNCHANGED file

NextInterleaved == NewSharedIterable \/ DrawInterleaved \/ ReturnInterleaved

SpecInterleaved == InitInterleaved /\ [][NextInterleaved]_vars

\* C23: of two passes over the same BalancedIterableDataset whose draws are
\* interleaved in any order, each yields draws that alternate between the
\* positive and the negative pool, and no id twice.
C23_InterleavedPassesIndependent ==
    dataset # Nil =>
        \A g \in BothPasses :
            \A k \in 1..Len(args[g].draws) :
                /\ k > 1 => args[g].draws[k].positive # args[g].draws[k - 1].positive
                /\ \A j \in 1..(k - 1) : args[g].draws[j].idx # args[g].draws[k].idx

\* C24: a pass over a BalancedIterableDataset ends by the end of the
\* iteration, never by an exception, and has then yielded exactly
\* epoch_size draws, for the default epoch_size and for every explicit one,
\* also one larger than twice the smaller pool.
C24_PassYieldsEpochSize ==
    \A g \in Passes :
        /\ args[g].state # "raised"
        /\ args[g].state = "done" => Len(args[g].draws) = view.epoch_size

(***************************************************************************)
(* data.py: dataset_to_hdf5 over an AudioTonalDataset.  file is the hdf5   *)
(* file with the rows written so far, args the position of the loop; the   *)
(* write of a fetched row into the file is taken to succeed.               *)
(***************************************************************************)
\* The annotation files of the corpus: those of ContourSets, and a file
\* with one contour of no nodes, which the format allows (its node count is
\* 0) and on which getAnnotationMask fails with IndexError at a[-1]
\* (render.py 213).
ExportContourSets == ContourSets \cup { << <<>> >> }

ExportDatasets ==
    { AudioTonalDataset(p, wavs, annos) :
        p \in ParamSets,
        <<wavs, annos>> \in UNION { [1..n -> Wavs] \X [1..n -> ExportContourSets] :
                                      n \in 0..MaxFiles } }

InitExport ==
    /\ dataset \in ExportDatasets
    /\ view = Nil /\ file = Nil /\ args = Nil /\ ret = Nil

\* The call up to the loops (data.py 486-495): len(dataset), which raises
\* ValueError when __len__ returns a negative number, the fetch of
\* dataset[0] for the shapes, and the creation of the file.
OpenExport ==
    /\ args.op = "none" /\ ret = Nil
    /\ LET first == get_datum(dataset, 0)
       IN  IF len(dataset) < 0
           THEN /\ ret' = [raised |-> "ValueError"]
                /\ UNCHANGED <<args, file>>
           ELSE IF first.raised # NoError
           THEN /\ ret' = [raised |-> first.raised]
                /\ UNCHANGED <<args, file>>
           ELSE /\ args' = [op |-> "dataset_to_hdf5", i |-> 0]
                /\ file' = [rows |-> {}, closed |-> FALSE]
                /\ UNCHANGED ret
    /\ UNCHANGED <<dataset, view>>

\* One pass of the loop (data.py 497-511), and h5.close() after the last
\* (data.py 513).  An exception of dataset[i] leaves the function; the file
\* stays as it is.
ExportRow ==
    /\ args.op = "dataset_to_hdf5" /\ ret = Nil
    /\ IF args.i >= len(dataset)
       THEN /\ file' = [file EXCEPT !.closed = TRUE]
            /\ ret' = [raised |-> NoError]
            /\ UNCHANGED args
       ELSE IF get_datum(dataset, args.i).raised # NoError
       THEN /\ ret' = [raised |-> get_datum(dataset, args.i).raised]
            /\ UNCHANGED <<args, file>>
       ELSE /\ file' = [file EXCEPT !.rows = @ \cup {args.i}]
            /\ args' = [args EXCEPT !.i = @ + 1]
            /\ UNCHANGED ret
    /\ UNCHANGED <<dataset, view>>

\* The caller has the outcome; the export can be asked for again.
ReturnExport ==
    /\ ret # Nil
    /\ args' = Nil /\ file' = Nil /\ ret' = Nil
    /\ UNCHANGED <<dataset, view>>

NextExport == OpenExport \/ ExportRow \/ ReturnExport

SpecExport == InitExport /\ [][NextExport]_vars

\* C25: when dataset_to_hdf5 has ended, every patch of the corpus whose
\* fetch succeeds is in the file: the failure of one fetch does not keep
\* the patches of the remaining files out of the export.
C25_ExportContinuesAfterFailure ==
    ret # Nil =>
        \A idx \in 0..(len(dataset) - 1) :
            get_datum(dataset, idx).raised = NoError =>
                (file # Nil /\ idx \in file.rows)

\* The id denotes a cell of the grid of file k (1-based) whose
\* time-frequency window holds the node <<time, freq>>.
CellOfFileHolds(ds, k, idx, node) ==
    \E t_idx \in 0..(ds.file_info[k].num_time_divisions - 1),
       f_idx \in 0..(ds.file_info[k].num_freq_divisions - 1) :
        /\ idx = t_idx + f_idx * ds.file_info[k].num_time_divisions
                     + SumSeq(SubSeq(ds.num_patches, 1, k - 1))
        /\ t_idx * ds.time_patch_advance_ms <= node[1]
        /\ node[1] <= t_idx * ds.time_patch_advance_ms + ds.time_patch_length_ms
        /\ ds.params.min_freq + f_idx * ds.freq_patch_advance_hz <= node[2]
        /\ node[2] <= ds.params.min_freq + f_idx * ds.freq_patch_advance_hz
                          + ds.freq_patch_length_hz

\* C26: every id that get_positive_indices adds for a node of file k is in
\* the set it returns and denotes a cell of file k, with 0 <= t_idx <
\* num_time_divisions and 0 <= f_idx < num_freq_divisions, whose window
\* holds the node; a node after the last time division of its file marks
\* no cell of another frequency row or of another file.
C26_PositiveIdsAreCellsOfTheNode ==
    args.op = "get_positive_indices" =>
        \A k \in 1..Len(dataset.file_info) :
            \A c \in 1..Len(dataset.file_info[k].contours) :
                \A i \in 1..Len(dataset.file_info[k].contours[c]) :
                    \A idx \in NodeIndices(dataset, k, dataset.file_info[k].contours[c][i]) :
                        /\ idx \in ret.positive_set
                        /\ CellOfFileHolds(dataset, k, idx, dataset.file_info[k].contours[c][i])

\* The file (1-based) and the start of the window an accepted lookup
\* resolved to (data.py 268-282 and 305-317).
Resolved == locate(dataset, args.idx)

\* C27: for every id that get_index_source or get_datum resolves without
\* error, negative ids and ids of files with non-positive division counts
\* included, the window lies inside the grid of its file: 0 <= start_time,
\* start_time + time_patch_length_ms + frame_time_span <= file duration,
\* min_freq <= start_freq and start_freq + freq_patch_length_hz <=
\* min(max_freq, nyquist).
C27_ResolvedWindowInGrid ==
    (args.op \in {"get_index_source", "get_datum"} /\ Resolved.error = NoError) =>
        LET wav == dataset.file_info[Resolved.file_idx + 1].wav_data
        IN  /\ 0 <= Resolved.start_time
            /\ (Resolved.start_time + dataset.time_patch_length_ms
                    + dataset.params.frame_time_span) * wav.rate <= wav.num_samples * 1000
            /\ dataset.params.min_freq <= Resolved.start_freq
            /\ Resolved.start_freq + dataset.freq_patch_length_hz
                   <= Min(dataset.params.max_freq, wav.rate \div 2)

====
